---- MODULE Spec2Model ----
(***************************************************************************)
(* Model of the NJ restaurant market-gap engine.                           *)
(*                                                                         *)
(*   Batch side   : src/generate_gap_analysis.py (build_gap_analysis) and  *)
(*                  src/backend/recompute_gaps.py, both of which write     *)
(*                  data/gap_analysis.json from the business snapshot.     *)
(*   Serving side : src/backend/main.py (/recommendations, /opportunities).*)
(*                                                                         *)
(* Numbers are fixed point.  Units:                                        *)
(*   stars                 tenths        (3.5  -> 35)                      *)
(*   avg_stars             thousandths   (3.5  -> 3500)                    *)
(*   gap_score, avg_price  hundredths    (5.33 -> 533)                     *)
(*   closure_rate, rates   1/10000       (0.42 -> 4200)                    *)
(*   match_score, jitter   tenths        (61.2 -> 612)                     *)
(*   latitude / longitude  km on a local grid, 0 = coordinate missing      *)
(* Python's round() is modelled as round-half-even on the exact quotient.  *)
(***************************************************************************)
EXTENDS Integers, Sequences, FiniteSets, TLC

VARIABLES
    restaurants,    \* the business snapshot (data/yelp_nj_restaurants.json), a list
    GAP_DATA,       \* the AreaProfile store (data/gap_analysis.json), a list
    neighbors,      \* the neighbor lists the last batch run built, by zip
    writer,         \* which script wrote GAP_DATA ("none": read from disk as found)
    survival_model, \* _survival_model: "not_loaded" or the loaded predictor
    response,       \* the last response the API returned
    loop            \* locals of the selection loop of a /recommendations call

vars == <<restaurants, GAP_DATA, neighbors, writer, survival_model, response, loop>>

-----------------------------------------------------------------------------
(* Generic helpers                                                         *)

Range(s) == {s[i] : i \in DOMAIN s}

Max2(a, b) == IF a >= b THEN a ELSE b

Min2(a, b) == IF a <= b THEN a ELSE b

\* round(n / d) for d > 0, ties to even
RoundDiv(n, d) ==
    LET q == n \div d
        r == n % d
    IN  IF 2 * r < d THEN q
        ELSE IF 2 * r > d THEN q + 1
        ELSE IF q % 2 = 0 THEN q ELSE q + 1

RECURSIVE SumSeq(_)
SumSeq(s) == IF s = <<>> THEN 0 ELSE Head(s) + SumSeq(Tail(s))

\* [f(x) for x in s]
MapField(s, f) == [i \in DOMAIN s |-> s[i][f]]

\* sorted(list of numbers)
RECURSIVE SortAsc(_)
SortAsc(s) ==
    IF s = <<>> THEN <<>>
    ELSE LET n    == Len(s)
             rest == SortAsc(SubSeq(s, 1, n - 1))
             k    == Cardinality({i \in DOMAIN rest : rest[i] <= s[n]})
         IN  SubSeq(rest, 1, k) \o <<s[n]>> \o SubSeq(rest, k + 1, Len(rest))

\* mutant: the list is left in insertion order
SortDescBy_unsorted(s, f) == s

\* list.sort(key=lambda x: -x[f]) : stable, descending by field f
RECURSIVE SortDescBy(_, _)
SortDescBy(s, f) ==
    IF s = <<>> THEN <<>>
    ELSE LET n    == Len(s)
             rest == SortDescBy(SubSeq(s, 1, n - 1), f)
             k    == Cardinality({i \in DOMAIN rest : rest[i][f] >= s[n][f]})
         IN  SubSeq(rest, 1, k) \o <<s[n]>> \o SubSeq(rest, k + 1, Len(rest))

\* s[:n]
\* s[:n], a negative n counting from the end
Take(s, n) == SubSeq(s, 1, IF n < 0 THEN Max2(0, Len(s) + n) ELSE Min2(n, Len(s)))

\* keys of a dict in first-insertion order
RECURSIVE Dedup(_)
Dedup(s) ==
    IF s = <<>> THEN <<>>
    ELSE <<Head(s)>> \o SelectSeq(Dedup(Tail(s)), LAMBDA x : x # Head(s))

IndexOf(s, x) == CHOOSE i \in DOMAIN s : s[i] = x

-----------------------------------------------------------------------------
(* The business snapshot                                                   *)

\* str.lower() on the words that occur in category strings and keywords
Lower(w) ==
    CASE w = "Japanese" -> "japanese"
      [] w = "Sushi"    -> "sushi"
      [] w = "Italian"  -> "italian"
      [] w = "Pizza"    -> "pizza"
      [] w = "Korean"   -> "korean"
      [] w = "Asian"    -> "asian"
      [] w = "Bars"     -> "bars"
      [] OTHER          -> w

\* A category string is modelled by the set of words in it; `kw in cats`.
Contains(kw, cats) == kw \in cats

\* `kw.lower() in cats.lower()`
ContainsCI(kw, cats) == Lower(kw) \in {Lower(w) : w \in cats}

\* Areas of the snapshot: zip -> city and grid position (km)
ZipCity(z) ==
    CASE z = "08053" -> "Marlton"
      [] z = "08054" -> "Mount Laurel"
      [] z = "08055" -> "Medford"
      [] z = "08002" -> "Cherry Hill"
      [] z = "08003" -> "Cherry Hill"
      [] z = "08057" -> "Moorestown"
      [] OTHER       -> ""

ZipLat(z) == 10

ZipLon(z) ==
    CASE z = "08053" -> 10
      [] z = "08054" -> 22
      [] z = "08055" -> 40
      [] OTHER       -> 0

SnapshotZips == {"08053", "08054", "08055"}

\* Kinds of business record the ETL delivers (fields of a Yelp business)
Biz(z, cats, stars, open, attrs, dlon, geo) ==
    [ postal_code  |-> z,
      city         |-> ZipCity(z),
      latitude     |-> IF geo THEN ZipLat(z) ELSE 0,
      longitude    |-> IF geo THEN ZipLon(z) + dlon ELSE 0,
      categories   |-> cats,
      stars        |-> stars,
      review_count |-> 10,
      is_open      |-> open,
      attributes   |-> attrs ]

NoAttrs == [k \in {} |-> ""]

JapaneseSushi(z) ==
    Biz(z, {"Japanese", "Sushi", "Bars"}, 35, 1,
        [k \in {"BYOB", "OutdoorSeating", "RestaurantsPriceRange2"} |->
            IF k = "RestaurantsPriceRange2" THEN "2" ELSE "True"], 0, TRUE)

ItalianPizza(z) ==
    Biz(z, {"Italian", "Pizza"}, 45, 1,
        [k \in {"BYOB", "RestaurantsPriceRange2"} |->
            IF k = "RestaurantsPriceRange2" THEN "3" ELSE "False"], 0, TRUE)

ClosedJapanese(z) ==
    Biz(z, {"Japanese"}, 20, 0,
        [k \in {"BYOB"} |-> "True"], 4, TRUE)

UnlocatedSushi(z) ==
    Biz(z, {"sushi", "bars"}, 0, 1, NoAttrs, 0, FALSE)

BizKinds(z) == {JapaneseSushi(z), ItalianPizza(z), ClosedJapanese(z), UnlocatedSushi(z)}

BizUniverse == UNION {BizKinds(z) : z \in SnapshotZips}

\* The snapshot the first ingest found on disk
BaseSnapshot ==
    << ItalianPizza("08053"), ItalianPizza("08053"), ClosedJapanese("08053"),
       JapaneseSushi("08054"), JapaneseSushi("08054"), ItalianPizza("08054") >>

MaxIngest == 3

-----------------------------------------------------------------------------
(* src/generate_gap_analysis.py                                            *)

NEIGHBOR_RADIUS_KM == 20

MIN_ZIP_RESTAURANTS == 3

TOP_CUISINE_GAPS == 10

MIN_NEIGHBOR_DEMAND == 2

\* 1.0 in hundredths
GAP_SCORE_MIN == 100

\* the part of the keyword vocabulary the snapshot's category words can hit
CUISINE_KEYWORDS == <<"Italian", "Japanese", "Pizza", "Sushi">>

\* display names of ATTRIBUTE_MAP, in dict order (subset)
ATTRIBUTE_MAP == <<"BYOB", "Outdoor Seating", "Kid-Friendly">>

AttributeKeys(attr_name) ==
    CASE attr_name = "BYOB"            -> {"BYOB", "BYOBCorkage"}
      [] attr_name = "Outdoor Seating" -> {"OutdoorSeating"}
      [] attr_name = "Kid-Friendly"    -> {"GoodForKids"}
      [] OTHER                         -> {}

\* str(v).lower().strip().replace("u'", "").replace("'", "")
NormAttrValue(v) ==
    CASE v = "True"  -> "true"
      [] v = "False" -> "false"
      [] OTHER       -> v

haversine_km_sq(lat1, lon1, lat2, lon2) ==
    (lat2 - lat1) * (lat2 - lat1) + (lon2 - lon1) * (lon2 - lon1)

get_cuisines(categories) ==
    SelectSeq(CUISINE_KEYWORDS, LAMBDA c : ContainsCI(c, categories))

attr_true(attrs, keys) ==
    \E k \in keys :
        /\ k \in DOMAIN attrs
        /\ LET sv == NormAttrValue(attrs[k])
           IN  \/ sv \in {"true", "1", "yes", "free", "paid"}
               \/ k \in {"WiFi", "BYOBCorkage"} /\ sv \notin {"no", "none", ""}

NoCentroid == <<>>

zip_centroid(rs) ==
    LET lats == SelectSeq(MapField(rs, "latitude"), LAMBDA x : x # 0)
        lons == SelectSeq(MapField(rs, "longitude"), LAMBDA x : x # 0)
    IN  IF lats = <<>> THEN NoCentroid
        ELSE << SortAsc(lats)[(Len(lats) \div 2) + 1],
                SortAsc(lons)[(Len(lons) \div 2) + 1] >>

\* z and len(z) == 5 and z.isdigit()
IsFiveDigitZip(z) == z \in {"08053", "08054", "08055"}

by_zip(R, z) == SelectSeq(R, LAMBDA r : r.postal_code = z)

\* zips with enough restaurants, in first-appearance order
zip_codes(R) ==
    SelectSeq(Dedup(SelectSeq(MapField(R, "postal_code"), IsFiveDigitZip)),
              LAMBDA z : Len(by_zip(R, z)) >= MIN_ZIP_RESTAURANTS)

centroids(R) ==
    [z \in {x \in Range(zip_codes(R)) : zip_centroid(by_zip(R, x)) # NoCentroid}
        |-> zip_centroid(by_zip(R, z))]

\* mutant: the open filter is dropped
gen_open_count_unfiltered(rs) == Len(rs)

\* open_count of generate_gap_analysis.py
gen_open_count(rs) == Len(SelectSeq(rs, LAMBDA r : r.is_open = 1))

gen_closure_rate(rs) ==
    IF Len(rs) > 0 THEN RoundDiv((Len(rs) - gen_open_count(rs)) * 10000, Len(rs)) ELSE 0

\* prices that float() parses
PriceValue(attrs) ==
    IF "RestaurantsPriceRange2" \in DOMAIN attrs
    THEN CASE attrs["RestaurantsPriceRange2"] = "1" -> 1
           [] attrs["RestaurantsPriceRange2"] = "2" -> 2
           [] attrs["RestaurantsPriceRange2"] = "3" -> 3
           [] attrs["RestaurantsPriceRange2"] = "4" -> 4
           [] OTHER -> 0
    ELSE 0

gen_avg_price(rs) ==
    LET prices == SelectSeq([i \in DOMAIN rs |-> PriceValue(rs[i].attributes)],
                            LAMBDA p : p # 0)
    IN  IF prices # <<>> THEN RoundDiv(SumSeq(prices) * 100, Len(prices)) ELSE 200

\* max(set(cities), key=cities.count)
gen_city(rs) ==
    LET cities == SelectSeq(MapField(rs, "city"), LAMBDA c : c # "")
        cnt(c) == Len(SelectSeq(cities, LAMBDA x : x = c))
    IN  IF cities = <<>> THEN ""
        ELSE CHOOSE c \in Range(cities) : \A d \in Range(cities) : cnt(c) >= cnt(d)

\* cuisine_counts: every restaurant of the zip is counted, open or not
gen_cuisine_counts(rs) ==
    [c \in Range(CUISINE_KEYWORDS) |->
        Len(SelectSeq(rs, LAMBDA r : c \in Range(get_cuisines(r.categories))))]

\* zip_stats keys, in insertion order
zip_list(R) == SelectSeq(zip_codes(R), LAMBDA z : z \in DOMAIN centroids(R))

within_radius(c1, c2) ==
    haversine_km_sq(c1[1], c1[2], c2[1], c2[2]) <= NEIGHBOR_RADIUS_KM * NEIGHBOR_RADIUS_KM

\* mutant: the pair loop forgets neighbors[z2].append(z1)
gen_neighbor_list_one_way(zl, cent, z) ==
    SelectSeq(zl, LAMBDA z2 :
        IndexOf(zl, z) < IndexOf(zl, z2) /\ within_radius(cent[z], cent[z2]))

\* the pair loop: z1 before z2 appends z2 to neighbors[z1] and z1 to neighbors[z2]
gen_neighbor_list(zl, cent, z) ==
    SelectSeq(zl, LAMBDA z2 :
        \/ IndexOf(zl, z) < IndexOf(zl, z2) /\ within_radius(cent[z], cent[z2])
        \/ IndexOf(zl, z2) < IndexOf(zl, z) /\ within_radius(cent[z2], cent[z]))

gen_neighbors(R) ==
    [z \in Range(zip_list(R)) |-> gen_neighbor_list(zip_list(R), centroids(R), z)]

\* local_avg_stars of a cuisine, thousandths
gen_local_avg_stars(rs, cuisine) ==
    LET ls == SelectSeq(
                MapField(SelectSeq(rs, LAMBDA r :
                            cuisine \in Range(get_cuisines(r.categories))), "stars"),
                LAMBDA x : x # 0)
    IN  IF ls # <<>> THEN RoundDiv(SumSeq(ls) * 100, Len(ls)) ELSE 0

\* round(nd / (lc * max(local_avg_stars, 1.0) + 1), 2), hundredths
gen_gap_score(nd, lc, local_avg_stars) ==
    RoundDiv(nd * 100 * 1000, lc * Max2(local_avg_stars, 1000) + 1000)

\* mutant: an area without neighbors is measured against the whole snapshot
gen_neighbor_demand_or_global(R, nbrs, cuisine) ==
    IF nbrs = <<>>
    THEN gen_cuisine_counts(R)[cuisine]
    ELSE SumSeq([i \in DOMAIN nbrs |-> gen_cuisine_counts(by_zip(R, nbrs[i]))[cuisine]])

\* neighbor_demand[cuisine], summed over the neighbor zips
gen_neighbor_demand(R, nbrs, cuisine) ==
    SumSeq([i \in DOMAIN nbrs |-> gen_cuisine_counts(by_zip(R, nbrs[i]))[cuisine]])

gen_cuisine_gaps(R, z, nbrs) ==
    LET rs      == by_zip(R, z)
        local   == gen_cuisine_counts(rs)
        nd(c)   == gen_neighbor_demand(R, nbrs, c)
        all     == SelectSeq(CUISINE_KEYWORDS, LAMBDA c : local[c] > 0 \/ nd(c) > 0)
        entry(c) == [ cuisine         |-> c,
                      gap_score       |-> gen_gap_score(nd(c), local[c],
                                                        gen_local_avg_stars(rs, c)),
                      local_count     |-> local[c],
                      neighbor_demand |-> nd(c),
                      local_avg_stars |-> gen_local_avg_stars(rs, c) ]
        kept    == SelectSeq([i \in DOMAIN all |-> entry(all[i])],
                             LAMBDA g : /\ g.neighbor_demand >= MIN_NEIGHBOR_DEMAND
                                        /\ g.gap_score >= GAP_SCORE_MIN)
    IN  Take(SortDescBy(kept, "gap_score"), TOP_CUISINE_GAPS)

\* hits / len(rs) as the pair <<hits, len>>
attr_rate(rs, attr_name) ==
    << Len(SelectSeq(rs, LAMBDA r : attr_true(r.attributes, AttributeKeys(attr_name)))),
       Len(rs) >>

\* sum of the fractions in s, as <<num, den>>
RECURSIVE SumFractions(_)
SumFractions(s) ==
    IF s = <<>> THEN <<0, 1>>
    ELSE LET t == SumFractions(Tail(s))
         IN  << Head(s)[1] * t[2] + t[1] * Head(s)[2], Head(s)[2] * t[2] >>

gen_attr_gaps(R, z, nbrs) ==
    LET rs == by_zip(R, z)
        entry(a) ==
            LET lr   == attr_rate(rs, a)
                nr   == SumFractions([i \in DOMAIN nbrs |-> attr_rate(by_zip(R, nbrs[i]), a)])
                navg == IF nbrs # <<>> THEN RoundDiv(nr[1] * 10000, nr[2] * Len(nbrs)) ELSE 0
            IN  [ attribute    |-> a,
                  local_rate   |-> RoundDiv(lr[1] * 10000, lr[2]),
                  neighbor_avg |-> navg,
                  gap          |-> RoundDiv(navg * lr[2] - lr[1] * 10000, lr[2]) ]
        kept == SelectSeq([i \in DOMAIN ATTRIBUTE_MAP |-> entry(ATTRIBUTE_MAP[i])],
                          LAMBDA g : g.gap > 500)
    IN  SortDescBy(kept, "gap")

gen_profile(R, z) ==
    LET rs   == by_zip(R, z)
        nbrs == gen_neighbors(R)[z]
    IN  [ zip               |-> z,
          city              |-> gen_city(rs),
          total_restaurants |-> Len(rs),
          open_restaurants  |-> gen_open_count(rs),
          closure_rate      |-> gen_closure_rate(rs),
          total_reviews     |-> SumSeq(MapField(rs, "review_count")),
          avg_price         |-> gen_avg_price(rs),
          num_neighbors     |-> Len(nbrs),
          top_cuisine_gaps  |-> gen_cuisine_gaps(R, z, nbrs),
          attr_gaps         |-> gen_attr_gaps(R, z, nbrs) ]

\* results.sort(key=lambda x: x["zip"]); zips of the snapshot in ascending order
ZipOrder == <<"08053", "08054", "08055">>

build_gap_analysis(R) ==
    LET zl     == zip_list(R)
        sorted == SelectSeq(ZipOrder, LAMBDA z : z \in Range(zl))
    IN  [i \in DOMAIN sorted |-> gen_profile(R, sorted[i])]

-----------------------------------------------------------------------------
(* src/backend/recompute_gaps.py                                           *)

\* the part of CUISINES the snapshot's category words can hit, in list order
CUISINES == <<"Italian", "Japanese", "Pizza", "Sushi", "Bars">>

\* ATTRIBUTES (subset), in list order
ATTRIBUTES == <<"BYOB", "HasTV", "OutdoorSeating", "GoodForKids">>

RECOMPUTE_RADIUS_KM == 15

RECOMPUTE_TOP_GAPS == 5

\* zips = sorted(zip_groups.keys())
rc_zips(R) == SelectSeq(ZipOrder, LAMBDA z : z \in Range(MapField(R, "postal_code")))

\* mean latitude / longitude as <<sum lat, n lat, sum lon, n lon>>
rc_coords(rs) ==
    LET lats == SelectSeq(MapField(rs, "latitude"), LAMBDA x : x # 0)
        lons == SelectSeq(MapField(rs, "longitude"), LAMBDA x : x # 0)
    IN  IF lats # <<>> /\ lons # <<>>
        THEN <<SumSeq(lats), Len(lats), SumSeq(lons), Len(lons)>>
        ELSE NoCentroid

\* zip_coords keys, in insertion (sorted) order
zip_coords(R) == SelectSeq(rc_zips(R), LAMBDA z : rc_coords(by_zip(R, z)) # NoCentroid)

\* get_dist(a, b) <= km, on the exact means
get_dist_within(a, b, km) ==
    LET dlat_n == b[1] * a[2] - a[1] * b[2]
        dlat_d == a[2] * b[2]
        dlon_n == b[3] * a[4] - a[3] * b[4]
        dlon_d == a[4] * b[4]
    IN  dlat_n * dlat_n * dlon_d * dlon_d + dlon_n * dlon_n * dlat_d * dlat_d
            <= km * km * dlat_d * dlat_d * dlon_d * dlon_d

rc_neighbor_list(R, z) ==
    SelectSeq(zip_coords(R), LAMBDA nz :
        /\ nz # z
        /\ get_dist_within(rc_coords(by_zip(R, z)), rc_coords(by_zip(R, nz)),
                           RECOMPUTE_RADIUS_KM))

rc_neighbors(R) == [z \in Range(zip_coords(R)) |-> rc_neighbor_list(R, z)]

RECURSIVE ConcatAll(_)
ConcatAll(ss) == IF ss = <<>> THEN <<>> ELSE Head(ss) \o ConcatAll(Tail(ss))

rc_neighbor_r(R, nbrs) == ConcatAll([i \in DOMAIN nbrs |-> by_zip(R, nbrs[i])])

\* local_cats / neighbor_cats: open restaurants whose categories contain c
rc_cats(rs, c) ==
    Len(SelectSeq(rs, LAMBDA r : r.is_open # 0 /\ Contains(c, r.categories)))

\* neighbor_demand / (local_count * 1.5 + 1) > 0.5
rc_gap_kept(nd, lc) == 4 * nd > 3 * lc + 2

\* round(neighbor_demand / (local_count * 1.5 + 1), 2), hundredths
rc_gap_score(nd, lc) == RoundDiv(200 * nd, 3 * lc + 2)

rc_cuisine_gaps(R, z, nbrs) ==
    LET local_r    == by_zip(R, z)
        neighbor_r == rc_neighbor_r(R, nbrs)
        entry(c) == [ cuisine         |-> c,
                      gap_score       |-> rc_gap_score(rc_cats(neighbor_r, c),
                                                       rc_cats(local_r, c)),
                      local_count     |-> rc_cats(local_r, c),
                      neighbor_demand |-> rc_cats(neighbor_r, c) ]
        kept == SelectSeq([i \in DOMAIN CUISINES |-> entry(CUISINES[i])],
                          LAMBDA g : rc_gap_kept(g.neighbor_demand, g.local_count))
    IN  SortDescBy(kept, "gap_score")

rc_attr_with(rs, attr) ==
    Len(SelectSeq(rs, LAMBDA r :
        /\ DOMAIN r.attributes # {}
        /\ attr \in DOMAIN r.attributes
        /\ r.attributes[attr] = "True"))

\* appended in ATTRIBUTES order; the script does not sort this list
rc_attr_gaps(R, z, nbrs) ==
    LET local_r    == by_zip(R, z)
        neighbor_r == rc_neighbor_r(R, nbrs)
        ln == Len(local_r)
        nn == Len(neighbor_r)
        lw(a) == rc_attr_with(local_r, a)
        nw(a) == rc_attr_with(neighbor_r, a)
        entry(a) ==
            [ attribute    |-> a,
              gap          |-> IF nn > 0
                               THEN 10 * RoundDiv((nw(a) * ln - lw(a) * nn) * 1000, nn * ln)
                               ELSE 10 * RoundDiv((0 - lw(a)) * 1000, ln),
              local_rate   |-> 10 * RoundDiv(lw(a) * 1000, ln),
              neighbor_avg |-> IF nn > 0 THEN 10 * RoundDiv(nw(a) * 1000, nn) ELSE 0 ]
    IN  SelectSeq([i \in DOMAIN ATTRIBUTES |-> entry(ATTRIBUTES[i])],
                  LAMBDA g :
                    LET a == g.attribute
                    IN  nn > 0 /\ 10 * nw(a) * ln > 10 * lw(a) * nn + nn * ln)

rc_open_restaurants(rs) == Len(SelectSeq(rs, LAMBDA r : r.is_open # 0))

rc_closure_rate(rs) ==
    RoundDiv(Len(SelectSeq(rs, LAMBDA r : r.is_open = 0)) * 10000, Len(rs))

rc_avg_price(rs) ==
    LET priced == SelectSeq(rs, LAMBDA r :
                    /\ DOMAIN r.attributes # {}
                    /\ \/ "RestaurantsPriceRange2" \notin DOMAIN r.attributes
                       \/ PriceValue(r.attributes) # 0)
        value(r) == IF "RestaurantsPriceRange2" \in DOMAIN r.attributes
                    THEN PriceValue(r.attributes) ELSE 2
    IN  RoundDiv(SumSeq([i \in DOMAIN priced |-> value(priced[i])]) * 100, Len(rs))

rc_record(R, z) ==
    LET local_r == by_zip(R, z)
        nbrs    == rc_neighbor_list(R, z)
    IN  [ zip               |-> z,
          city              |-> local_r[1].city,
          total_restaurants |-> Len(local_r),
          open_restaurants  |-> rc_open_restaurants(local_r),
          closure_rate      |-> rc_closure_rate(local_r),
          total_reviews     |-> SumSeq(MapField(local_r, "review_count")),
          avg_price         |-> rc_avg_price(local_r),
          top_cuisine_gaps  |-> Take(rc_cuisine_gaps(R, z, nbrs), RECOMPUTE_TOP_GAPS),
          attr_gaps         |-> rc_attr_gaps(R, z, nbrs),
          num_neighbors     |-> Len(nbrs) ]

gap_analysis(R) ==
    LET zl == zip_coords(R)
    IN  [i \in DOMAIN zl |-> rc_record(R, zl[i])]

-----------------------------------------------------------------------------
(* src/backend/main.py : tables and scoring helpers                        *)

NoValue == "None"

\* nothing served yet
NoResponse == [endpoint |-> NoValue]

\* no /recommendations call is inside its selection loop
NoLoop ==
    [ active |-> FALSE, query |-> [limit |-> 0], remaining |-> <<>>,
      selected |-> <<>>, min_score |-> 0, max_score |-> 10 ]

\* ZIP_COUNTY.get(zip, "Unknown") for the zips of the served store
ZIP_COUNTY(z) ==
    CASE z = "08002" -> "Camden"
      [] z = "08003" -> "Camden"
      [] z = "08054" -> "Burlington"
      [] z = "08055" -> "Burlington"
      [] z = "08057" -> "Burlington"
      [] OTHER       -> "Unknown"

DEFAULT_COUNTY_CAP == 2

\* COUNTY_CAPS.get(county, DEFAULT_COUNTY_CAP)
COUNTY_CAPS(county) ==
    CASE county = "Camden"     -> 0
      [] county = "Gloucester" -> 2
      [] county = "Burlington" -> 2
      [] county = "Salem"      -> 2
      [] county = "Mercer"     -> 2
      [] OTHER                 -> DEFAULT_COUNTY_CAP

\* 1 / (1 + _geo_dist(a, b)) over ZIP_COORDS, in 1/100000
GeoSim(a, b) ==
    LET pair == {a, b}
    IN  CASE a = b                    -> 100000
          [] pair = {"08002", "08003"} -> 94715
          [] pair = {"08002", "08053"} -> 91864
          [] pair = {"08002", "08054"} -> 92129
          [] pair = {"08002", "08055"} -> 84456
          [] pair = {"08002", "08057"} -> 95965
          [] pair = {"08003", "08053"} -> 96585
          [] pair = {"08003", "08054"} -> 93278
          [] pair = {"08003", "08055"} -> 88324
          [] pair = {"08003", "08057"} -> 91331
          [] pair = {"08053", "08054"} -> 93633
          [] pair = {"08053", "08055"} -> 91168
          [] pair = {"08053", "08057"} -> 88967
          [] pair = {"08054", "08055"} -> 88588
          [] pair = {"08054", "08057"} -> 91048
          [] pair = {"08055", "08057"} -> 82297
          [] OTHER                     -> 100000

\* int(hashlib.md5(zip_code.encode()).hexdigest()[:4], 16)
Md5Prefix16(z) ==
    CASE z = "08002" -> 58775
      [] z = "08003" -> 43183
      [] z = "08053" -> 44060
      [] z = "08054" -> 931
      [] z = "08055" -> 26604
      [] z = "08057" -> 40335
      [] OTHER       -> 0

\* math.log10(n + 1) in 1/1000000, for the total_reviews of the served store
Log10Micro(n) ==
    CASE n = 10     -> 1041393
      [] n = 50     -> 1707570
      [] n = 900    -> 2954725
      [] n = 1200   -> 3079543
      [] n = 5000   -> 3699057
      [] n = 12000  -> 4079217
      [] n = 100000 -> 5000004
      [] OTHER      -> 0

\* math.log(n + 1) in 1/1000000
LnMicro(n) ==
    CASE n = 10     -> 2397895
      [] n = 50     -> 3931826
      [] n = 900    -> 6803505
      [] n = 1200   -> 7090910
      [] n = 5000   -> 8517393
      [] n = 12000  -> 9392745
      [] n = 100000 -> 11512935
      [] OTHER      -> 0

\* CUISINE_SYNONYMS.get(c, []) (rows the requested cuisines reach)
CUISINE_SYNONYMS(c) ==
    CASE c = "pizza"    -> {"italian"}
      [] c = "italian"  -> {"pizza", "mediterranean"}
      [] c = "japanese" -> {"sushi", "korean", "asian"}
      [] c = "sushi"    -> {"japanese", "asian"}
      [] c = "korean"   -> {"japanese", "asian"}
      [] OTHER          -> {}

\* r.strip().lower() on the risk tokens a caller sends
NormRiskToken(t) ==
    CASE t = "Low"     -> "low"
      [] t = " medium" -> "medium"
      [] t = "HIGH"    -> "high"
      [] OTHER         -> t

risk_label(closure_rate) ==
    IF closure_rate < 2000 THEN "low"
    ELSE IF closure_rate < 3500 THEN "medium"
    ELSE "high"

\* mutant: the jitter also depends on what the server answered before
get_jitter_stateful(zip_code, scale) ==
    RoundDiv((2 * Md5Prefix16(zip_code) - 65535) * scale, 65535)
        + (IF response.endpoint = NoValue THEN 0 ELSE 1)

\* _get_jitter: round((val - 0.5) * 2 * scale, 1), tenths; scale in tenths
get_jitter(zip_code, scale) ==
    RoundDiv((2 * Md5Prefix16(zip_code) - 65535) * scale, 65535)

\* top gap of a profile with an exact (case-sensitive) cuisine filter, hundredths
opp_top_gap(z, cuisine_filter) ==
    IF cuisine_filter # NoValue
    THEN LET gaps == SelectSeq(z.top_cuisine_gaps, LAMBDA g : g.cuisine = cuisine_filter)
         IN  IF gaps # <<>> THEN gaps[1].gap_score ELSE 0
    ELSE IF z.top_cuisine_gaps # <<>> THEN z.top_cuisine_gaps[1].gap_score ELSE 0

\* round(top_gap * 0.6 + log(total_reviews + 1) * 2 + attr_bonus, 2), hundredths
opportunity_score(z, cuisine_filter) ==
    RoundDiv(opp_top_gap(z, cuisine_filter) * 6000
             + 2 * LnMicro(z.total_reviews)
             + Min2(Len(z.attr_gaps) * 2500000, 10000000),
             10000)

\* the survival predictor, a black box: probability in percent, -1 when the
\* call raises
predict_proba(model, zip_code) ==
    CASE model = "steady" -> 70
      [] model = "flaky"  ->
            (CASE zip_code = "08002" -> 70
               [] zip_code = "08003" -> 58
               [] zip_code = "08054" -> -1
               [] zip_code = "08055" -> 40
               [] OTHER              -> 0)
      [] OTHER -> -1

\* mutant: the final clamp to [0.1, 99.9] is dropped
clamp_score_unclamped(x) == x

\* max(0.1, min(99.9, x)), tenths
clamp_score(x) == Max2(1, Min2(999, x))

-----------------------------------------------------------------------------
(* The files the API loads at startup                                      *)

CuisineGap(c, nd, lc) ==
    [ cuisine |-> c, gap_score |-> rc_gap_score(nd, lc),
      local_count |-> lc, neighbor_demand |-> nd ]

AttrGap(a, local, neigh) ==
    [ attribute |-> a, gap |-> neigh - local,
      local_rate |-> local, neighbor_avg |-> neigh ]

AreaProfile(z, closure, reviews, price, gaps, attrs) ==
    [ zip               |-> z,
      city              |-> ZipCity(z),
      total_restaurants |-> 20,
      open_restaurants  |-> 20 - RoundDiv(closure * 20, 10000),
      closure_rate      |-> closure,
      total_reviews     |-> reviews,
      avg_price         |-> price,
      top_cuisine_gaps  |-> gaps,
      attr_gaps         |-> attrs,
      num_neighbors     |-> 3 ]

\* AreaProfiles as recompute_gaps.py writes them, one per zip
StoredProfile(z) ==
    CASE z = "08002" ->
            AreaProfile(z, 0, 100000, 250,
                << CuisineGap("Sushi", 8, 0), CuisineGap("Italian", 5, 1) >>,
                << AttrGap("BYOB", 1000, 4000), AttrGap("HasTV", 0, 3000),
                   AttrGap("OutdoorSeating", 2000, 5000),
                   AttrGap("Caters", 1000, 2500) >>)
      [] z = "08003" ->
            AreaProfile(z, 2500, 5000, 220,
                << CuisineGap("Japanese", 3, 0), CuisineGap("Bars", 4, 1) >>,
                << AttrGap("GoodForKids", 1000, 3000) >>)
      [] z = "08053" ->
            AreaProfile(z, 1500, 50, 200, <<>>, << AttrGap("BYOB", 0, 5000) >>)
      [] z = "08054" ->
            AreaProfile(z, 4200, 10, 300,
                << CuisineGap("Italian", 1, 0) >>, <<>>)
      [] z = "08055" ->
            AreaProfile(z, 1000, 1200, 180,
                << CuisineGap("Japanese", 4, 0), CuisineGap("Pizza", 6, 1) >>,
                << AttrGap("BYOB", 1000, 3000), AttrGap("OutdoorSeating", 0, 2000) >>)
      [] OTHER ->
            AreaProfile(z, 2500, 5000, 240,
                << CuisineGap("Pizza", 6, 0), CuisineGap("Italian", 5, 0),
                   CuisineGap("Bars", 9, 1), CuisineGap("Sushi", 4, 1) >>,
                << AttrGap("OutdoorSeating", 0, 2000) >>)

\* gap_analysis.json files the server may find, each a list in zip order
StoredFiles ==
    { << "08002", "08003", "08053", "08054", "08055", "08057" >>,
      << "08002", "08003" >>,
      << "08054", "08055", "08057" >>,
      << "08003", "08053", "08055" >>,
      << "08002", "08054" >> }

LoadGapData(zs) == [i \in DOMAIN zs |-> StoredProfile(zs[i])]

\* yelp_nj_restaurants.json as the server finds it
ServedSnapshot ==
    << JapaneseSushi("08054"), JapaneseSushi("08054"), JapaneseSushi("08054"),
       JapaneseSushi("08055"), ItalianPizza("08055"),
       ItalianPizza("08057"), ItalianPizza("08002"), ClosedJapanese("08003") >>

\* RESTAURANTS_BY_ZIP.get(zip, [])
RESTAURANTS_BY_ZIP(z) == SelectSeq(restaurants, LAMBDA r : r.postal_code = z)

-----------------------------------------------------------------------------
(* src/backend/main.py : get_recommendations, per-area scoring             *)

\* 0.5 in hundredths of a price tier
PRICE_TOLERANCE == 50

EXACT_PENALTY_THRESHOLD == -10

required_attrs(q) ==
    (IF q.byob THEN <<"BYOB">> ELSE <<>>)
    \o (IF q.delivery THEN <<"HasTV">> ELSE <<>>)
    \o (IF q.outdoor THEN <<"OutdoorSeating">> ELSE <<>>)
    \o (IF q.kid_friendly THEN <<"GoodForKids">> ELSE <<>>)

cuisine_family(cuisine) ==
    IF cuisine = NoValue THEN {}
    ELSE {Lower(cuisine)} \cup CUISINE_SYNONYMS(Lower(cuisine))

\* [r.strip().lower() for r in risk_levels.split(",")]
accepted_risks(risk_levels) == {NormRiskToken(t) : t \in Range(risk_levels)}

\* mutant: the risk toggle is ignored
risk_accepted_any(z, risk_levels) == TRUE

\* `if risk_levels:` ... `z_risk not in accepted_risks` -> continue
risk_accepted(z, risk_levels) ==
    \/ risk_levels = <<>>
    \/ risk_label(z.closure_rate) \in accepted_risks(risk_levels)

\* businesses of the area whose categories hit the cuisine family
family_count(zip_code, family) ==
    Len(SelectSeq(RESTAURANTS_BY_ZIP(zip_code), LAMBDA r :
        \E c \in family : c \in {Lower(w) : w \in r.categories}))

\* price with tolerance buffer: [penalty, exact, issues]
price_check(z, q) ==
    IF q.max_price_tier # 0 /\ z.avg_price > q.max_price_tier
    THEN IF z.avg_price - q.max_price_tier <= PRICE_TOLERANCE
         THEN [ penalty |-> -5, exact |-> TRUE,
                issues  |-> << <<"Slightly above price target", <<>> >> >> ]
         ELSE [ penalty |-> -15, exact |-> FALSE,
                issues  |-> << <<"Average price tier is higher than expected", <<>> >> >> ]
    ELSE [ penalty |-> 0, exact |-> TRUE, issues |-> <<>> ]

\* mutant: the majority tier is skipped
attr_check_no_majority(z, q) ==
    LET req          == required_attrs(q)
        present_gaps == {a.attribute : a \in Range(z.attr_gaps)}
        missing      == SelectSeq(req, LAMBDA a : a \notin present_gaps)
        low_confidence ==
            /\ q.cuisine # NoValue
            /\ family_count(z.zip, cuisine_family(q.cuisine)) < 3
    IN  IF missing = <<>>
        THEN [ penalty |-> 0, exact |-> TRUE, issues |-> <<>> ]
        ELSE IF low_confidence
        THEN [ penalty |-> -2 * Len(missing), exact |-> TRUE,
               issues  |-> << <<"Unconfirmed gaps due to low local sample size", missing>> >> ]
        ELSE [ penalty |-> -8 * Len(missing), exact |-> FALSE,
               issues  |-> << <<"Missing validated service gaps", missing>> >> ]

\* required service gaps: [penalty, exact, issues]
attr_check(z, q) ==
    LET req          == required_attrs(q)
        present_gaps == {a.attribute : a \in Range(z.attr_gaps)}
        missing      == SelectSeq(req, LAMBDA a : a \notin present_gaps)
        fulfilled    == Len(req) - Len(missing)
        majority_met == 2 * fulfilled >= Len(req)
        low_confidence ==
            /\ q.cuisine # NoValue
            /\ family_count(z.zip, cuisine_family(q.cuisine)) < 3
    IN  IF missing = <<>>
        THEN [ penalty |-> 0, exact |-> TRUE, issues |-> <<>> ]
        ELSE IF low_confidence
        THEN [ penalty |-> -2 * Len(missing), exact |-> TRUE,
               issues  |-> << <<"Unconfirmed gaps due to low local sample size", missing>> >> ]
        ELSE IF majority_met /\ Len(req) >= 2
        THEN [ penalty |-> -5 * Len(missing), exact |-> TRUE,
               issues  |-> << <<"Most requested service gaps present; missing", missing>> >> ]
        ELSE [ penalty |-> -8 * Len(missing), exact |-> FALSE,
               issues  |-> << <<"Missing validated service gaps", missing>> >> ]

\* mutant: the synonym-family tier is skipped
cuisine_match_no_family(z, q) ==
    LET gaps   == z.top_cuisine_gaps
        family == cuisine_family(q.cuisine)
        exact_gaps  == SelectSeq(gaps, LAMBDA g : Lower(g.cuisine) = Lower(q.cuisine))
        avg_gap      == IF gaps # <<>> THEN gaps[1].neighbor_demand ELSE 0
        computed_gap == Max2(0, avg_gap - family_count(z.zip, family))
    IN  IF q.cuisine = NoValue
        THEN [ top_gap |-> IF gaps # <<>> THEN gaps[1].gap_score ELSE 0,
               penalty |-> 0, exact |-> TRUE, issues |-> <<>> ]
        ELSE IF exact_gaps # <<>>
        THEN [ top_gap |-> exact_gaps[1].gap_score,
               penalty |-> 0, exact |-> TRUE, issues |-> <<>> ]
        ELSE IF computed_gap > 0
        THEN [ top_gap |-> computed_gap * 100,
               penalty |-> -8, exact |-> FALSE,
               issues  |-> << <<"Cuisine gap exists but not among strongest in this area", <<>> >> >> ]
        ELSE [ top_gap |-> 0,
               penalty |-> -12, exact |-> FALSE,
               issues  |-> << <<"No measurable cuisine gap detected in this area", <<>> >> >> ]

\* cuisine matching tiers: [top_gap (hundredths), penalty, exact, issues]
cuisine_match(z, q) ==
    LET gaps   == z.top_cuisine_gaps
        family == cuisine_family(q.cuisine)
        exact_gaps  == SelectSeq(gaps, LAMBDA g : Lower(g.cuisine) = Lower(q.cuisine))
        family_gaps == SelectSeq(gaps, LAMBDA g : Lower(g.cuisine) \in family)
        avg_gap      == IF gaps # <<>> THEN gaps[1].neighbor_demand ELSE 0
        computed_gap == Max2(0, avg_gap - family_count(z.zip, family))
    IN  IF q.cuisine = NoValue
        THEN [ top_gap |-> IF gaps # <<>> THEN gaps[1].gap_score ELSE 0,
               penalty |-> 0, exact |-> TRUE, issues |-> <<>> ]
        ELSE IF exact_gaps # <<>>
        THEN [ top_gap |-> exact_gaps[1].gap_score,
               penalty |-> 0, exact |-> TRUE, issues |-> <<>> ]
        ELSE IF family_gaps # <<>>
        THEN [ top_gap |-> family_gaps[1].gap_score,
               penalty |-> 0, exact |-> TRUE,
               issues  |-> << <<"Matched via related cuisine", <<family_gaps[1].cuisine>> >> >> ]
        ELSE IF computed_gap > 0
        THEN [ top_gap |-> computed_gap * 100,
               penalty |-> -8, exact |-> FALSE,
               issues  |-> << <<"Cuisine gap exists but not among strongest in this area", <<>> >> >> ]
        ELSE [ top_gap |-> 0,
               penalty |-> -12, exact |-> FALSE,
               issues  |-> << <<"No measurable cuisine gap detected in this area", <<>> >> >> ]

\* bisect.bisect_right(_all_top_gaps_sorted, top_gap)
bisect_right(store, top_gap) ==
    Cardinality({i \in DOMAIN store :
        (IF store[i].top_cuisine_gaps # <<>>
         THEN store[i].top_cuisine_gaps[1].gap_score ELSE 0) <= top_gap})

weakspot_penalty(closure_rate) ==
    IF closure_rate > 3000 THEN -25
    ELSE IF closure_rate > 2000 THEN -10
    ELSE 0

\* the predictor's probability in percent, -1 (None) when skipped or failed
survival_prob(model, z, q) ==
    IF model # "not_loaded" /\ q.cuisine # NoValue
    THEN predict_proba(model, z.zip)
    ELSE -1

\* mutant: a failed predictor call is scored like a confident prediction
survival_bonus_counts_failure(prob) ==
    IF prob > 65 \/ prob < 0 THEN 15
    ELSE IF prob > 50 THEN 8
    ELSE 0

survival_bonus(prob) ==
    IF prob > 65 THEN 15
    ELSE IF prob > 50 THEN 8
    ELSE 0

\* base_master in 1/1000000 of a point
base_master(store, model, z, q, top_gap, penalty) ==
    RoundDiv(bisect_right(store, top_gap) * 50000000, Len(store))
    + 4 * Log10Micro(z.total_reviews)
    + (10000 - z.closure_rate) * 800
    + 1000000 * weakspot_penalty(z.closure_rate)
    + 1000000 * survival_bonus(survival_prob(model, z, q))
    + 1500000 * Len(z.attr_gaps)
    + 1000000 * penalty

\* max(0.1, min(99.9, round(min(99.0, base_master) + jitter, 1))), tenths
match_score(store, model, z, q, top_gap, penalty) ==
    clamp_score(
        RoundDiv(Min2(99000000, base_master(store, model, z, q, top_gap, penalty))
                 + 100000 * get_jitter(z.zip, 15),
                 100000))

\* the gap list with the requested cuisine's own entries moved to the front
top_gaps_context(z, cuisine) ==
    IF cuisine = NoValue THEN z.top_cuisine_gaps
    ELSE SelectSeq(z.top_cuisine_gaps, LAMBDA g : Lower(g.cuisine) = Lower(cuisine))
         \o SelectSeq(z.top_cuisine_gaps, LAMBDA g : Lower(g.cuisine) # Lower(cuisine))

\* mutant: a downgrade is never taken back
reclassify_never(penalty, is_exact) == is_exact

\* `if penalty < 0 and penalty >= EXACT_PENALTY_THRESHOLD: is_exact = True`
reclassify(penalty, is_exact) ==
    IF penalty < 0 /\ penalty >= EXACT_PENALTY_THRESHOLD THEN TRUE ELSE is_exact

\* the dict appended to results for one area that passed the hard filters
score_area(store, model, z, q) ==
    LET pc       == price_check(z, q)
        ac       == attr_check(z, q)
        cm       == cuisine_match(z, q)
        penalty  == pc.penalty + ac.penalty + cm.penalty
        is_exact == reclassify(penalty, pc.exact /\ ac.exact /\ cm.exact)
        top_gaps == top_gaps_context(z, q.cuisine)
        prob     == survival_prob(model, z, q)
    IN  [ zip               |-> z.zip,
          city              |-> z.city,
          match_score       |-> match_score(store, model, z, q, cm.top_gap, penalty),
          opportunity_score |-> opportunity_score(z, q.cuisine),
          match_type        |-> IF is_exact THEN "exact" ELSE "relaxed",
          match_issues      |-> pc.issues \o ac.issues \o cm.issues,
          primary_concept   |-> IF top_gaps # <<>> THEN top_gaps[1].cuisine ELSE "General",
          risk              |-> risk_label(z.closure_rate),
          closure_rate      |-> z.closure_rate,
          total_reviews     |-> z.total_reviews,
          avg_price_tier    |-> z.avg_price,
          evidence          |->
              [ cuisine_gap_score       |-> cm.top_gap,
                neighbor_demand         |-> IF top_gaps # <<>>
                                            THEN top_gaps[1].neighbor_demand ELSE 0,
                attribute_opportunities |-> {a.attribute : a \in Range(z.attr_gaps)},
                survival_probability    |-> IF prob > 0 THEN prob ELSE -1,
                is_weakspot             |-> z.closure_rate > 2500 ],
          top_cuisine_gaps  |-> Take(top_gaps, 3) ]

\* mutant: areas with equal scores are ordered by their jitter, larger first
scored_results_by_jitter(store, model, q) ==
    LET kept == SelectSeq(store, LAMBDA z :
                    /\ z.total_reviews >= q.min_market_size
                    /\ risk_accepted(z, q.risk_levels))
        keyed == [i \in DOMAIN kept |->
                    [ r |-> score_area(store, model, kept[i], q),
                      k |-> 100 * score_area(store, model, kept[i], q).match_score
                            + 50 + get_jitter(kept[i].zip, 15) ]]
    IN  MapField(SortDescBy(keyed, "k"), "r")

\* results after the loop over GAP_DATA and the sort by score
scored_results(store, model, q) ==
    LET kept == SelectSeq(store, LAMBDA z :
                    /\ z.total_reviews >= q.min_market_size
                    /\ risk_accepted(z, q.risk_levels))
    IN  SortDescBy([i \in DOMAIN kept |-> score_area(store, model, kept[i], q)],
                   "match_score")

-----------------------------------------------------------------------------
(* src/backend/main.py : get_recommendations, city grouping and selection  *)

\* the per-zip dict kept under a city's "zips"
zip_entry(r, evidence) ==
    [ zip               |-> r.zip,
      match_score       |-> r.match_score,
      opportunity_score |-> r.opportunity_score,
      match_type        |-> r.match_type,
      match_issues      |-> r.match_issues,
      risk              |-> r.risk,
      total_reviews     |-> r.total_reviews,
      avg_price_tier    |-> r.avg_price_tier,
      evidence          |-> evidence,
      top_cuisine_gaps  |-> r.top_cuisine_gaps ]

\* mutant: the city keeps the attribute opportunities of its first zip
city_entry_unmerged(members) ==
    LET first == members[1]
    IN  [ zip               |-> first.zip,
          city              |-> first.city,
          match_score       |-> first.match_score,
          opportunity_score |-> first.opportunity_score,
          match_type        |-> first.match_type,
          match_issues      |-> first.match_issues,
          primary_concept   |-> first.primary_concept,
          risk              |-> first.risk,
          closure_rate      |-> first.closure_rate,
          avg_price_tier    |-> first.avg_price_tier,
          evidence          |-> first.evidence,
          top_cuisine_gaps  |-> first.top_cuisine_gaps,
          zips              |-> [i \in DOMAIN members |->
                                    zip_entry(members[i], members[i].evidence)],
          total_reviews     |-> SumSeq(MapField(members, "total_reviews")) ]

\* one city_pool value: the best zip's dict, its sub-areas, summed reviews.
\* The city's evidence dict is the first zip's own dict, so the merged
\* attribute list shows in both.
city_entry(members) ==
    LET first    == members[1]
        merged   == UNION {members[i].evidence.attribute_opportunities : i \in DOMAIN members}
        evidence == [first.evidence EXCEPT !.attribute_opportunities = merged]
    IN  [ zip               |-> first.zip,
          city              |-> first.city,
          match_score       |-> first.match_score,
          opportunity_score |-> first.opportunity_score,
          match_type        |-> first.match_type,
          match_issues      |-> first.match_issues,
          primary_concept   |-> first.primary_concept,
          risk              |-> first.risk,
          closure_rate      |-> first.closure_rate,
          avg_price_tier    |-> first.avg_price_tier,
          evidence          |-> evidence,
          top_cuisine_gaps  |-> first.top_cuisine_gaps,
          zips              |-> [i \in DOMAIN members |->
                                    zip_entry(members[i],
                                        IF i = 1 THEN evidence ELSE members[i].evidence)],
          total_reviews     |-> SumSeq(MapField(members, "total_reviews")) ]

\* list(city_pool.values()): cities in order of their best zip
city_candidates(results) ==
    LET cities == Dedup(MapField(results, "city"))
    IN  [i \in DOMAIN cities |->
            city_entry(SelectSeq(results, LAMBDA r : r.city = cities[i]))]

\* mutant: the city entry is the stored profile of its best zip
city_pool_dict_stored(first) == <<"GAP_DATA", first.zip>>

\* the object `city_pool[city]` names: `{**r, "zips": [...], ...}` is a new
\* dict, and r and r["evidence"] were built by the handler in results.append,
\* so the entry is an object of the request, named here by owner and zip
city_pool_dict(first) == <<"results", first.zip>>

\* the assignments of the grouping loop's else branch, by target object:
\* evidence["attribute_opportunities"] = list(existing_attrs) and
\* total_reviews += r["total_reviews"] on a city with a further sub-area
city_pool_writes(cands) ==
        { [ object                  |-> city_pool_dict(cands[i]),
            attribute_opportunities |-> cands[i].evidence.attribute_opportunities,
            total_reviews           |-> cands[i].total_reviews ] :
          i \in {j \in DOMAIN cands : Len(cands[j].zips) > 1} }

\* GAP_DATA once the handler has run: a profile changes only where an
\* assignment targets an object of the store. The other statements build
\* new objects (results, matched_gaps, top_gaps[:3], the comprehension over
\* attr_gaps, selected, county_counts, grouped) or sort lists of the request.
GAP_DATA_after_recommendations(store, cands) ==
    LET writes == city_pool_writes(cands)
        hits(z) == {w \in writes : w.object = <<"GAP_DATA", z.zip>>}
    IN  [i \in DOMAIN store |->
            IF hits(store[i]) = {} THEN store[i]
            ELSE LET w == CHOOSE w \in hits(store[i]) : TRUE
                 IN  [store[i] EXCEPT !.total_reviews = w.total_reviews]]

\* county_counts.get(county, 0)
county_count(selected, county) ==
    Cardinality({i \in DOMAIN selected : ZIP_COUNTY(selected[i].zip) = county})

\* county_counts.get(county, 0) >= cap -> continue
cap_reached(selected, cand) ==
    county_count(selected, ZIP_COUNTY(cand.zip)) >= COUNTY_CAPS(ZIP_COUNTY(cand.zip))

\* max(1 / (1 + _geo_dist(rep, sz)) for sz in selected_zips), 0.0 when none
max_sim(selected, cand) ==
    IF selected = <<>> THEN 0
    ELSE LET sims == {GeoSim(cand.zip, selected[i].zip) : i \in DOMAIN selected}
         IN  CHOOSE m \in sims : \A x \in sims : x <= m

\* RELEVANCE_WEIGHT * relevance - DIVERSITY_WEIGHT * max_sim, scaled by
\* 1000000 * score_range (scores in tenths); score_range is
\* max(max_score - min_score, 0.001), which leaves every relevance at 0
\* when the scores are all equal
mmr(selected, cand, min_score, max_score) ==
    IF max_score > min_score
    THEN 6 * (cand.match_score - min_score) * 100000
         - 4 * max_sim(selected, cand) * (max_score - min_score)
    ELSE 0 - 4 * max_sim(selected, cand)

\* mutant: the loop takes the candidates in score order
pick_best_by_score(remaining, selected, min_score, max_score) == 1

\* the candidate one pass of the while loop picks, as an index of remaining
pick_best(remaining, selected, min_score, max_score) ==
    LET eligible == {i \in DOMAIN remaining : ~cap_reached(selected, remaining[i])}
        key(i)   == mmr(selected, remaining[i], min_score, max_score)
    IN  IF eligible = {}
        THEN 1
        ELSE CHOOSE i \in eligible :
                /\ \A j \in eligible : key(j) <= key(i)
                /\ \A j \in eligible : j < i => key(j) < key(i)

\* while remaining and len(selected) < limit
RECURSIVE mmr_select(_, _, _, _, _)
mmr_select(remaining, selected, limit, min_score, max_score) ==
    IF remaining = <<>> \/ Len(selected) >= limit
    THEN selected
    ELSE LET b == pick_best(remaining, selected, min_score, max_score)
         IN  mmr_select(SubSeq(remaining, 1, b - 1)
                            \o SubSeq(remaining, b + 1, Len(remaining)),
                        Append(selected, remaining[b]),
                        limit, min_score, max_score)

\* mutant: the selected cities are returned in the order they were picked
resort_selected_skipped(selected) == selected

\* selected.sort(key=lambda x: -x["match_score"])
resort_selected(selected) == SortDescBy(selected, "match_score")

\* the dict the handler returns once the loop has ended
recommendations_answer(store, q, selected) ==
    LET grouped == resort_selected(selected)
    IN  [ endpoint        |-> "/recommendations",
          query           |-> q,
          count           |-> Len(grouped),
          total_analyzed  |-> Len(store),
          recommendations |-> Take(grouped, q.limit) ]

\* max_score / min_score of the candidate list (1 and 0 when it is empty)
max_score_of(cands) == IF cands # <<>> THEN cands[1].match_score ELSE 10

min_score_of(cands) == IF cands # <<>> THEN cands[Len(cands)].match_score ELSE 0

\* the body of the /recommendations answer
recommendations(store, model, q) ==
    LET cands == city_candidates(scored_results(store, model, q))
    IN  recommendations_answer(store, q,
            mmr_select(cands, <<>>, q.limit, min_score_of(cands), max_score_of(cands)))

\* mutant: an iteration that leaves remaining and selected as they were
loop_step_no_progress(l) == l

\* one iteration of the while loop on the loop's locals
loop_step(l) ==
    LET b == pick_best(l.remaining, l.selected, l.min_score, l.max_score)
    IN  [l EXCEPT !.remaining = SubSeq(l.remaining, 1, b - 1)
                                \o SubSeq(l.remaining, b + 1, Len(l.remaining)),
                  !.selected  = Append(l.selected, l.remaining[b])]

\* mutant: the loop also stops once every remaining county is at its cap
loop_condition_until_capped(l) ==
    /\ l.remaining # <<>>
    /\ Len(l.selected) < l.query.limit
    /\ \E i \in DOMAIN l.remaining : ~cap_reached(l.selected, l.remaining[i])

\* `while remaining and len(selected) < limit`
loop_condition(l) == l.remaining # <<>> /\ Len(l.selected) < l.query.limit

-----------------------------------------------------------------------------
(* src/backend/main.py : get_opportunities                                 *)

\* sort_keys.get(sort, sort_keys["opportunity_score"]), as a key to sort
\* descending by; a distance sorts ascending, i.e. by 1 / (1 + distance)
\* descending
opp_sort_key(x, sort, target_zip) ==
    CASE sort = "market_size"        -> x.total_reviews
      [] sort = "closure_risk"       -> x.closure_rate
      [] sort = "distance_to_target" ->
            (IF target_zip # NoValue THEN GeoSim(x.zip, target_zip) ELSE 0)
      [] OTHER                       -> x.opportunity_score

\* the dict format_zip builds from a gap list it has already ordered
formatted(z, cuisine_filter, top_gaps) ==
    [ zip               |-> z.zip,
      city              |-> z.city,
      opportunity_score |-> opportunity_score(z, cuisine_filter),
      risk              |-> risk_label(z.closure_rate),
      closure_rate      |-> z.closure_rate,
      total_reviews     |-> z.total_reviews,
      total_restaurants |-> z.total_restaurants,
      open_restaurants  |-> z.open_restaurants,
      avg_price_tier    |-> z.avg_price,
      top_cuisine_gaps  |-> Take(top_gaps, 3),
      attr_gaps         |-> z.attr_gaps,
      sort_key          |-> 0 ]

\* mutant: the gaps are truncated in their stored order
format_zip_stored_order(z, cuisine_filter) ==
    formatted(z, cuisine_filter, z.top_cuisine_gaps)

format_zip(z, cuisine_filter) ==
    LET top_gaps ==
            IF cuisine_filter # NoValue
            THEN SelectSeq(z.top_cuisine_gaps, LAMBDA g : g.cuisine = cuisine_filter)
                 \o SelectSeq(z.top_cuisine_gaps, LAMBDA g : g.cuisine # cuisine_filter)
            ELSE z.top_cuisine_gaps
    IN  formatted(z, cuisine_filter, top_gaps)

opportunities(store, q) ==
    LET kept == SelectSeq(store, LAMBDA z :
                    /\ q.cuisine # NoValue =>
                         \E g \in Range(z.top_cuisine_gaps) : g.cuisine = q.cuisine
                    /\ opp_top_gap(z, q.cuisine) >= q.min_gap_score
                    /\ z.total_reviews >= q.min_market_size
                    /\ risk_accepted(z, q.risk_levels))
        keyed == [i \in DOMAIN kept |->
                    [format_zip(kept[i], q.cuisine) EXCEPT
                        !.sort_key = opp_sort_key(format_zip(kept[i], q.cuisine),
                                                  q.sort, q.target_zip)]]
        results == SortDescBy(keyed, "sort_key")
    IN  [ endpoint |-> "/opportunities",
          query    |-> q,
          count    |-> Len(results),
          results  |-> Take([i \in DOMAIN results |->
                                [results[i] EXCEPT !.sort_key = 0]], q.limit) ]

\* the value of GAP_BY_ZIP.get(zip_code) when the key is absent
NoProfile == [zip |-> NoValue]

\* mutant: an absent key is answered with the first stored profile
GAP_BY_ZIP_get_or_first(store, zip_code) ==
    IF \E i \in DOMAIN store : store[i].zip = zip_code
    THEN store[CHOOSE i \in DOMAIN store : store[i].zip = zip_code]
    ELSE IF store # <<>> THEN store[1] ELSE NoProfile

\* GAP_BY_ZIP = {z["zip"]: z for z in GAP_DATA}; GAP_BY_ZIP.get(zip_code)
GAP_BY_ZIP_get(store, zip_code) ==
    LET hits == {i \in DOMAIN store : store[i].zip = zip_code}
    IN  IF hits = {} THEN NoProfile
        ELSE store[CHOOSE i \in hits : \A j \in hits : j <= i]

\* the answer of GET /opportunity/{zip_code}: HTTPException(404) or the
\* breakdown of the area
opportunity(store, zip_code) ==
    LET z == GAP_BY_ZIP_get(store, zip_code)
    IN  IF z = NoProfile
        THEN [ endpoint |-> "/opportunity",
               zip_code |-> zip_code,
               status   |-> 404 ]
        ELSE [ endpoint          |-> "/opportunity",
               zip_code          |-> zip_code,
               status            |-> 200,
               zip               |-> z.zip,
               city              |-> z.city,
               opportunity_score |-> opportunity_score(z, NoValue),
               risk              |-> risk_label(z.closure_rate),
               cuisine_gaps      |-> z.top_cuisine_gaps,
               attribute_gaps    |-> z.attr_gaps,
               local_restaurants |->
                   Take([i \in DOMAIN RESTAURANTS_BY_ZIP(zip_code) |->
                            [ stars        |-> RESTAURANTS_BY_ZIP(zip_code)[i].stars,
                              review_count |-> RESTAURANTS_BY_ZIP(zip_code)[i].review_count,
                              categories   |-> RESTAURANTS_BY_ZIP(zip_code)[i].categories,
                              is_open      |-> RESTAURANTS_BY_ZIP(zip_code)[i].is_open ]],
                        15) ]

-----------------------------------------------------------------------------
(* Batch actions                                                           *)

Init ==
    /\ restaurants = BaseSnapshot
    /\ GAP_DATA = <<>>
    /\ neighbors = <<>>
    /\ writer = "none"
    /\ survival_model = "not_loaded"
    /\ response = NoResponse
    /\ loop = NoLoop

\* the ETL delivers one more business record (before any batch run)
Ingest ==
    /\ writer = "none"
    /\ Len(restaurants) < Len(BaseSnapshot) + MaxIngest
    /\ \E r \in BizUniverse : restaurants' = Append(restaurants, r)
    /\ UNCHANGED <<GAP_DATA, neighbors, writer, survival_model, response, loop>>

\* python generate_gap_analysis.py
RunGenerate ==
    /\ writer # "generate"
    /\ GAP_DATA' = build_gap_analysis(restaurants)
    /\ neighbors' = gen_neighbors(restaurants)
    /\ writer' = "generate"
    /\ UNCHANGED <<restaurants, survival_model, response, loop>>

\* python backend/recompute_gaps.py
RunRecompute ==
    /\ writer # "recompute"
    /\ GAP_DATA' = gap_analysis(restaurants)
    /\ neighbors' = rc_neighbors(restaurants)
    /\ writer' = "recompute"
    /\ UNCHANGED <<restaurants, survival_model, response, loop>>

Next == Ingest \/ RunGenerate \/ RunRecompute

Spec == Init /\ [][Next]_vars

-----------------------------------------------------------------------------
(* Serving: the API process over the files it loaded                       *)

MaxLimit == 2

Flags(byob, delivery, outdoor, kid_friendly) ==
    [ byob |-> byob, delivery |-> delivery,
      outdoor |-> outdoor, kid_friendly |-> kid_friendly ]

\* the service-gap toggles callers send
FlagInputs ==
    { Flags(FALSE, FALSE, FALSE, FALSE),
      Flags(TRUE, FALSE, FALSE, FALSE),
      Flags(TRUE, FALSE, TRUE, FALSE) }

\* risk_levels as sent, split at the commas; <<>> when absent
RiskInputs == { <<>>, <<"low">>, <<"Low", " medium">> }

CuisineInputs == {NoValue, "Sushi", "Italian"}

\* max_price_tier in hundredths; 0 when absent
PriceInputs == {0, 200}

RecommendationQueries ==
    { [ cuisine         |-> c,
        risk_levels     |-> rl,
        max_price_tier  |-> p,
        byob            |-> f.byob,
        delivery        |-> f.delivery,
        outdoor         |-> f.outdoor,
        kid_friendly    |-> f.kid_friendly,
        min_market_size |-> 0,
        limit           |-> l ] :
      c \in CuisineInputs, rl \in RiskInputs, p \in PriceInputs,
      f \in FlagInputs, l \in 1..MaxLimit }

OpportunityQueries ==
    { [ cuisine         |-> c,
        min_gap_score   |-> 0,
        min_market_size |-> 0,
        risk_levels     |-> rl,
        sort            |-> srt,
        target_zip      |-> "08054",
        limit           |-> l ] :
      c \in {NoValue, "Sushi"}, rl \in RiskInputs,
      srt \in {"opportunity_score", "distance_to_target"}, l \in 1..MaxLimit }

\* startup: both files are read, the survival model is loaded if present
ServeInit ==
    /\ restaurants = ServedSnapshot
    /\ GAP_DATA \in {LoadGapData(f) : f \in StoredFiles}
    /\ neighbors = <<>>
    /\ writer = "none"
    /\ survival_model \in {"not_loaded", "steady", "flaky"}
    /\ response = NoResponse
    /\ loop = NoLoop

\* GET /recommendations
get_recommendations ==
    \E q \in RecommendationQueries :
        /\ response' = recommendations(GAP_DATA, survival_model, q)
        /\ GAP_DATA' = GAP_DATA_after_recommendations(GAP_DATA,
                city_candidates(scored_results(GAP_DATA, survival_model, q)))
        /\ UNCHANGED <<restaurants, neighbors, writer, survival_model, loop>>

\* GET /opportunities
get_opportunities ==
    \E q \in OpportunityQueries :
        /\ response' = opportunities(GAP_DATA, q)
        /\ UNCHANGED <<restaurants, GAP_DATA, neighbors, writer, survival_model, loop>>

\* path parameters tried: stored zips, an unknown zip, a malformed one
OpportunityZips == {"08002", "08054", "08057", "99999", "abc"}

\* GET /opportunity/{zip_code}
get_opportunity ==
    \E zip_code \in OpportunityZips :
        /\ response' = opportunity(GAP_DATA, zip_code)
        /\ UNCHANGED <<restaurants, GAP_DATA, neighbors, writer, survival_model, loop>>

ServeNext == get_recommendations \/ get_opportunities \/ get_opportunity

SpecServe == ServeInit /\ [][ServeNext]_vars

-----------------------------------------------------------------------------
(* src/backend/main.py : POST /predict                                     *)

\* an Optional[int] field of PredictRequest that the caller left out (None)
Unset == -1

\* the concept attributes of PredictRequest followed here
ConceptFlags == {"has_delivery", "has_takeout", "has_wifi"}

NOISE_MAP(level) ==
    CASE level = "quiet"     -> 0
      [] level = "average"   -> 1
      [] level = "loud"      -> 2
      [] level = "very_loud" -> 3
      [] OTHER               -> 1

CuisineDefaultKeys ==
    {"American", "Japanese", "Sushi", "Italian", "Chinese", "Thai", "Mexican",
     "Pizza", "Sandwiches", "Burgers", "Vegan"}

\* CUISINE_DEFAULTS[key], the followed attributes
CUISINE_DEFAULTS(key) ==
    [ has_delivery |-> 1,
      has_takeout  |-> 1,
      has_wifi     |-> IF key \in {"American", "Burgers", "Vegan"} THEN 1 ELSE 0,
      noise_level  |-> IF key \in {"Sushi", "Chinese", "Thai"} THEN "quiet" ELSE "average" ]

GLOBAL_DEFAULTS ==
    [ has_delivery |-> 1, has_takeout |-> 1, has_wifi |-> 0, noise_level |-> "average" ]

\* CUISINE_DEFAULTS.get(cuisine_key, GLOBAL_DEFAULTS), the key found without
\* regard to case
concept_defaults(cuisine) ==
    IF \E k \in CuisineDefaultKeys : Lower(k) = Lower(cuisine)
    THEN CUISINE_DEFAULTS(CHOOSE k \in CuisineDefaultKeys : Lower(k) = Lower(cuisine))
    ELSE GLOBAL_DEFAULTS

\* concept_dict after the merge: a field that is None takes the default
merge_defaults(req) ==
    LET defaults == concept_defaults(req.cuisine)
    IN  [ has_delivery |-> IF req.has_delivery = Unset
                           THEN defaults.has_delivery ELSE req.has_delivery,
          has_takeout  |-> IF req.has_takeout = Unset
                           THEN defaults.has_takeout ELSE req.has_takeout,
          has_wifi     |-> IF req.has_wifi = Unset
                           THEN defaults.has_wifi ELSE req.has_wifi,
          noise_level  |-> IF req.noise_level = NoValue
                           THEN defaults.noise_level ELSE req.noise_level ]

\* Python's `x or d` on an int
OrElse(x, d) == IF x = 0 \/ x = Unset THEN d ELSE x

\* _build_feature_vector, the entries of the followed features
build_feature_vector(concept, zip_context) ==
    [ has_delivery     |-> OrElse(concept.has_delivery, 0),
      has_takeout      |-> OrElse(concept.has_takeout, 1),
      has_wifi         |-> OrElse(concept.has_wifi, 0),
      noise_level      |-> NOISE_MAP(concept.noise_level),
      zip_closure_rate |-> zip_context.closure_rate ]

\* the answer of POST /predict: the HTTP status and, on 200, the concept
\* applied, the feature vector handed to the model and its probability
predict(store, model, req) ==
    LET zip_context == GAP_BY_ZIP_get(store, req.zip_code)
        concept     == merge_defaults(req)
        prob        == predict_proba(model, req.zip_code)
    IN  IF model = "not_loaded"
        THEN [ endpoint |-> "/predict", request |-> req, status |-> 503 ]
        ELSE IF zip_context = NoProfile
        THEN [ endpoint |-> "/predict", request |-> req, status |-> 404 ]
        ELSE IF prob < 0
        THEN [ endpoint |-> "/predict", request |-> req, status |-> 500 ]
        ELSE [ endpoint             |-> "/predict",
               request              |-> req,
               status               |-> 200,
               concept_applied      |-> concept,
               feature_vector       |-> build_feature_vector(concept, zip_context),
               survival_probability |-> prob ]

PredictRequests ==
    { [ zip_code     |-> z,
        cuisine      |-> c,
        has_delivery |-> d,
        has_takeout  |-> t,
        has_wifi     |-> w,
        noise_level  |-> n ] :
      z \in {"08002", "08054", "99999"},
      c \in {"Pizza", "burgers", "Ethiopian"},
      d \in {Unset, 0, 1}, t \in {Unset, 0, 1}, w \in {Unset, 0, 1},
      n \in {NoValue, "loud"} }

\* POST /predict
predict_survival ==
    \E req \in PredictRequests :
        /\ response' = predict(GAP_DATA, survival_model, req)
        /\ UNCHANGED <<restaurants, GAP_DATA, neighbors, writer, survival_model, loop>>

\* the API process answering /predict requests
SpecPredict == ServeInit /\ [][predict_survival]_vars

-----------------------------------------------------------------------------
(* Serving, with the selection loop of /recommendations taken one          *)
(* iteration at a time                                                     *)

\* limit defaults to 10
DEFAULT_LIMIT == 10

\* limit: int = Query(10, le=30) has no lower bound
SelectionQueries ==
    { [ cuisine         |-> c,
        risk_levels     |-> <<>>,
        max_price_tier  |-> 0,
        byob            |-> FALSE,
        delivery        |-> FALSE,
        outdoor         |-> FALSE,
        kid_friendly    |-> FALSE,
        min_market_size |-> 0,
        limit           |-> l ] :
      c \in {NoValue, "Sushi"}, l \in {-1, 0} \cup (1..MaxLimit) \cup {DEFAULT_LIMIT} }

\* the handler has scored and grouped the areas and enters the loop
begin_selection ==
    /\ ~loop.active
    /\ \E q \in SelectionQueries :
          LET cands == city_candidates(scored_results(GAP_DATA, survival_model, q))
          IN  /\ loop' = [ active    |-> TRUE,
                           query     |-> q,
                           remaining |-> cands,
                           selected  |-> <<>>,
                           min_score |-> min_score_of(cands),
                           max_score |-> max_score_of(cands) ]
              /\ GAP_DATA' = GAP_DATA_after_recommendations(GAP_DATA, cands)
    /\ UNCHANGED <<restaurants, neighbors, writer, survival_model, response>>

\* one pass through the body of the while loop
select_step ==
    /\ loop.active
    /\ loop_condition(loop)
    /\ loop' = loop_step(loop)
    /\ UNCHANGED <<restaurants, GAP_DATA, neighbors, writer, survival_model, response>>

\* the loop condition failed: re-sort, strip, return
finish_selection ==
    /\ loop.active
    /\ ~loop_condition(loop)
    /\ response' = recommendations_answer(GAP_DATA, loop.query, loop.selected)
    /\ loop' = [loop EXCEPT !.active = FALSE]
    /\ UNCHANGED <<restaurants, GAP_DATA, neighbors, writer, survival_model>>

SelectNext == begin_selection \/ select_step \/ finish_selection

\* the interpreter keeps running a handler it has entered
SpecSelect ==
    /\ ServeInit
    /\ [][SelectNext]_vars
    /\ WF_vars(select_step)
    /\ WF_vars(finish_selection)

-----------------------------------------------------------------------------
(* Properties of the batch run                                             *)

Profiles == Range(GAP_DATA)

InNeighbors(a, b) == a \in Range(neighbors[b])

\* C3: the neighbor relation a batch run builds is symmetric: A is in the
\* neighbor list of B iff B is in the neighbor list of A.
C3_NeighborsSymmetric ==
    \A a \in DOMAIN neighbors : \A b \in DOMAIN neighbors :
        InNeighbors(a, b) <=> InNeighbors(b, a)

\* a run found a neighboring pair and a pair that is not neighboring
C3_Witness ==
    /\ writer = "generate"
    /\ \E a \in DOMAIN neighbors : \E b \in DOMAIN neighbors :
        /\ a # b
        /\ InNeighbors(a, b)
        /\ \E c \in DOMAIN neighbors : c # a /\ ~InNeighbors(c, a)

\* businesses of the area that are not flagged open
ClosedCount(z) ==
    Cardinality({i \in DOMAIN restaurants :
        restaurants[i].postal_code = z /\ restaurants[i].is_open # 1})

\* C4: every AreaProfile has open_count + closed_count = total_count and
\* 0 <= closure_rate <= 1.
C4_CountsAddUp ==
    \A p \in Profiles :
        /\ p.open_restaurants + ClosedCount(p.zip) = p.total_restaurants
        /\ 0 <= p.closure_rate
        /\ p.closure_rate <= 10000

\* a profile of an area with both open and closed businesses was written
C4_Witness ==
    /\ writer = "generate"
    /\ \E p \in Profiles :
        /\ p.open_restaurants > 0
        /\ ClosedCount(p.zip) > 0
        /\ p.closure_rate > 0
        /\ p.closure_rate < 10000

\* C5 (as claimed): every stored cuisine gap has neighbor_demand >=
\* MIN_NEIGHBOR_DEMAND and gap_score >= GAP_SCORE_MIN.
C5_GapsMeetThresholds ==
    \A p \in Profiles : \A g \in Range(p.top_cuisine_gaps) :
        /\ g.neighbor_demand >= MIN_NEIGHBOR_DEMAND
        /\ g.gap_score >= GAP_SCORE_MIN

StrictlyDescending(s, f) == \A i \in 1..(Len(s) - 1) : s[i][f] > s[i + 1][f]

Descending(s, f) == \A i \in 1..(Len(s) - 1) : s[i][f] >= s[i + 1][f]

\* C6 (as claimed): in every AreaProfile the cuisine gap list is strictly
\* descending by gap_score and the attribute gap list strictly descending by gap.
C6_StrictlySorted ==
    \A p \in Profiles :
        /\ StrictlyDescending(p.top_cuisine_gaps, "gap_score")
        /\ StrictlyDescending(p.attr_gaps, "gap")

LocalAvgRating(p, g) ==
    IF "local_avg_stars" \in DOMAIN g THEN g.local_avg_stars
    ELSE gen_local_avg_stars(by_zip(restaurants, p.zip), g.cuisine)

\* C9 (as claimed): gap_score = neighbor_demand /
\* (local_count * max(local_avg_rating, 1.0) + 1), to two decimals.
C9_GapFormula ==
    \A p \in Profiles : \A g \in Range(p.top_cuisine_gaps) :
        g.gap_score = RoundDiv(g.neighbor_demand * 100 * 1000,
                               g.local_count * Max2(LocalAvgRating(p, g), 1000) + 1000)

-----------------------------------------------------------------------------
(* Properties of the serving side                                          *)

IsRecommendations == response.endpoint = "/recommendations"

IsOpportunities == response.endpoint = "/opportunities"

\* the stored profile of a zip
ProfileOf(zip_code) == CHOOSE z \in Range(GAP_DATA) : z.zip = zip_code

\* every area dict of a /recommendations answer: the sub-areas of each city
ReturnedAreas ==
    UNION { Range(response.recommendations[i].zips) :
            i \in DOMAIN response.recommendations }

Counties == {"Camden", "Gloucester", "Burlington", "Salem", "Mercer", "Unknown"}

\* C1 (as claimed): in every /recommendations answer, the number of returned
\* cities whose representative area lies in a county never exceeds that
\* county's cap (Camden 0, the others 2).
C1_CountyCapsRespected ==
    IsRecommendations =>
        \A county \in Counties :
            county_count(response.recommendations, county) <= COUNTY_CAPS(county)

\* C2: every match_score /recommendations produces, for a city and for each
\* of its sub-areas, lies in [0.1, 99.9].
C2_MatchScoreInRange ==
    IsRecommendations =>
        /\ \A i \in DOMAIN response.recommendations :
               /\ response.recommendations[i].match_score >= 1
               /\ response.recommendations[i].match_score <= 999
        /\ \A a \in ReturnedAreas : a.match_score >= 1 /\ a.match_score <= 999

\* an answer in which one area sits on the upper clamp and another on the
\* lower one, each with a raw sum outside the interval
C2_Witness ==
    /\ IsRecommendations
    /\ \E a \in ReturnedAreas :
          /\ a.match_score = 999
          /\ 990 + get_jitter(a.zip, 15) > 999
    /\ \E a \in ReturnedAreas :
          /\ a.match_score = 1
          /\ weakspot_penalty(ProfileOf(a.zip).closure_rate) = -25

FamilyOnly(z, cuisine) ==
    /\ cuisine # NoValue
    /\ \A g \in Range(z.top_cuisine_gaps) : Lower(g.cuisine) # Lower(cuisine)
    /\ \E g \in Range(z.top_cuisine_gaps) : Lower(g.cuisine) \in cuisine_family(cuisine)

\* C10: an area with no gap of the requested cuisine's own name but with a
\* gap of a cuisine of its synonym family is scored with that family gap and
\* carries the issue "Matched via related cuisine: <that cuisine>".
C10_SynonymAnnotated ==
    IsRecommendations =>
        \A a \in ReturnedAreas :
            FamilyOnly(ProfileOf(a.zip), response.query.cuisine) =>
                \E g \in Range(ProfileOf(a.zip).top_cuisine_gaps) :
                    /\ Lower(g.cuisine) \in cuisine_family(response.query.cuisine)
                    /\ a.evidence.cuisine_gap_score = g.gap_score
                    /\ <<"Matched via related cuisine", <<g.cuisine>> >>
                           \in Range(a.match_issues)

\* Sushi was requested and an area listing only a Japanese gap was returned
C10_Witness ==
    /\ IsRecommendations
    /\ response.query.cuisine = "Sushi"
    /\ \E a \in ReturnedAreas :
          /\ FamilyOnly(ProfileOf(a.zip), "Sushi")
          /\ \E g \in Range(ProfileOf(a.zip).top_cuisine_gaps) : g.cuisine = "Japanese"

\* results as ranked by the sort at the end of the scoring loop, for the
\* query that was answered
RankedCandidates == scored_results(GAP_DATA, survival_model, response.query)

\* position of an area in the store
StorePosition(zip_code) == CHOOSE i \in DOMAIN GAP_DATA : GAP_DATA[i].zip = zip_code

TiedPairs ==
    {p \in (DOMAIN RankedCandidates) \X (DOMAIN RankedCandidates) :
        /\ p[1] < p[2]
        /\ RankedCandidates[p[1]].match_score = RankedCandidates[p[2]].match_score}

\* C11 (as claimed): two areas with equal match scores stand in the ranked
\* candidate list in the order of their jitter (the larger jitter first).
C11_TiesOrderedByJitter ==
    IsRecommendations =>
        \A p \in TiedPairs :
            get_jitter(RankedCandidates[p[1]].zip, 15)
                >= get_jitter(RankedCandidates[p[2]].zip, 15)

\* C11 (amended): two areas with equal match scores stand in the ranked
\* candidate list in the order in which the store lists them.
C11_TiesKeepStoreOrder ==
    IsRecommendations =>
        \A p \in TiedPairs :
            StorePosition(RankedCandidates[p[1]].zip)
                < StorePosition(RankedCandidates[p[2]].zip)

\* a query was answered in which two areas with different jitter tie above
\* the lower clamp
C11_Witness ==
    /\ IsRecommendations
    /\ \E p \in TiedPairs :
          /\ RankedCandidates[p[1]].match_score > 1
          /\ get_jitter(RankedCandidates[p[1]].zip, 15)
                # get_jitter(RankedCandidates[p[2]].zip, 15)

\* the predictor gave nothing for this area: not loaded, or the call raised
PredictorFailed(zip_code) ==
    \/ survival_model = "not_loaded"
    \/ predict_proba(survival_model, zip_code) < 0

\* the score of an area whose raw sum is 15 points (the bonus of a
\* confident prediction) below the one it has with a predictor that answers
ScoreWithoutBonus(z, q) ==
    LET r == score_area(GAP_DATA, "steady", z, q)
        penalty == price_check(z, q).penalty + attr_check(z, q).penalty
                   + cuisine_match(z, q).penalty
    IN  clamp_score(
            RoundDiv(Min2(99000000,
                          base_master(GAP_DATA, "steady", z, q,
                                      r.evidence.cuisine_gap_score, penalty)
                          - 15000000)
                     + 100000 * get_jitter(z.zip, 15),
                     100000))

\* C12: when the predictor is not loaded or raises for an area, the area is
\* still returned like any other, with survival bonus 0 and no
\* survival_probability; the areas ranked are exactly those that pass the
\* hard filters.
C12_PredictorFailureTolerated ==
    (IsRecommendations /\ response.query.cuisine # NoValue) =>
        /\ \A a \in ReturnedAreas :
              PredictorFailed(a.zip) =>
                  /\ a.evidence.survival_probability = -1
                  /\ a.match_score = ScoreWithoutBonus(ProfileOf(a.zip), response.query)
        /\ {r.zip : r \in Range(RankedCandidates)}
              = {z.zip : z \in {x \in Range(GAP_DATA) :
                                  /\ x.total_reviews >= response.query.min_market_size
                                  /\ risk_accepted(x, response.query.risk_levels)}}

\* the predictor raised for one returned area and answered for another
C12_Witness ==
    /\ IsRecommendations
    /\ response.query.cuisine # NoValue
    /\ survival_model = "flaky"
    /\ \E a \in ReturnedAreas : predict_proba(survival_model, a.zip) < 0
    /\ \E a \in ReturnedAreas : a.evidence.survival_probability > 0

\* C13: the selection loop of /recommendations ends for every candidate
\* list and limit, it never holds more than max(limit, 0) cities, and the
\* answer carries at most max(limit, 0) recommendations (at most 10 by
\* default) and is the answer of the handler run in one piece.
C13_SelectionTerminates ==
    /\ [](loop.active => <>(~loop.active))
    /\ [](loop.active => Len(loop.selected) <= Max2(loop.query.limit, 0))
    /\ []((IsRecommendations /\ ~loop.active) =>
            /\ Len(response.recommendations) <= Max2(response.query.limit, 0)
            /\ response.count <= Max2(response.query.limit, 0)
            /\ response = recommendations(GAP_DATA, survival_model, response.query))

\* C13 as stated: the loop ends and the answer carries at most `limit`
\* recommendations, whatever the limit.
C13_AtMostLimit ==
    /\ [](loop.active => <>(~loop.active))
    /\ []((IsRecommendations /\ ~loop.active) =>
            Len(response.recommendations) <= response.query.limit)

\* a call has returned whose loop stopped at the limit with candidates left,
\* after more than one iteration
C13_Witness ==
    /\ ~loop.active
    /\ IsRecommendations
    /\ loop.remaining # <<>>
    /\ Len(loop.selected) = loop.query.limit
    /\ Len(loop.selected) >= 2

\* the cities of the last /recommendations answer in the order the
\* selection loop picked them
PickOrder ==
    LET cands == city_candidates(scored_results(GAP_DATA, survival_model, response.query))
    IN  mmr_select(cands, <<>>, response.query.limit,
                   min_score_of(cands), max_score_of(cands))

\* C14: the city recommendations of an answer are in descending order of
\* match_score.
C14_OrderedByScore ==
    IsRecommendations =>
        \A i, j \in DOMAIN response.recommendations :
            i < j => response.recommendations[i].match_score
                        >= response.recommendations[j].match_score

\* an answer with two cities of different scores that the loop had picked
\* lower score first
C14_Witness ==
    /\ IsRecommendations
    /\ Len(response.recommendations) >= 2
    /\ response.recommendations[1].match_score > response.recommendations[2].match_score
    /\ PickOrder[1].match_score < PickOrder[2].match_score

IsOpportunity == response.endpoint = "/opportunity"

InStore(zip_code) == \E z \in Range(GAP_DATA) : z.zip = zip_code

\* C15: a detail request for a zip that is not in the store is answered 404
\* and changes nothing; a detail request for a stored zip succeeds, also
\* right after a request that was answered 404.
C15_UnknownZipNotFound ==
    [][ response'.endpoint = "/opportunity" =>
            /\ GAP_DATA' = GAP_DATA
            /\ restaurants' = restaurants
            /\ ~InStore(response'.zip_code) => response'.status = 404
            /\ InStore(response'.zip_code) =>
                    /\ response'.status = 200
                    /\ response'.zip = response'.zip_code
                    /\ response' = opportunity(GAP_DATA, response'.zip_code) ]_vars

\* the malformed code was answered 404 by a server whose store holds areas
C15_Witness ==
    /\ IsOpportunity
    /\ response.zip_code = "abc"
    /\ response.status = 404
    /\ GAP_DATA # <<>>

\* C16 (as claimed): when a cuisine is given to /recommendations, every
\* returned recommendation has primary_concept equal to that cuisine.
C16_PrimaryConceptIsCuisine ==
    (IsRecommendations /\ response.query.cuisine # NoValue) =>
        \A i \in DOMAIN response.recommendations :
            response.recommendations[i].primary_concept = response.query.cuisine

\* C17 (as claimed): when /recommendations is asked to require service
\* attribute gaps, every returned recommendation lists each of them in its
\* evidence.attribute_opportunities.
C17_RequiredAttributeListed ==
    IsRecommendations =>
        \A i \in DOMAIN response.recommendations :
            Range(required_attrs(response.query))
                \subseteq response.recommendations[i].evidence.attribute_opportunities

\* the "Slightly above price target" issue of an area, if it carries one
HasPriceIssue(a) ==
    \E k \in DOMAIN a.match_issues : a.match_issues[k][1] = "Slightly above price target"

\* C20 (as claimed): with a price ceiling, no returned area has an average
\* price more than 0.5 above the ceiling, and a returned area whose price is
\* above the ceiling by at most 0.5 carries the price match issue.
C20_PriceOvershootRejected ==
    (IsRecommendations /\ response.query.max_price_tier # 0) =>
        \A a \in ReturnedAreas :
            /\ a.avg_price_tier <= response.query.max_price_tier + PRICE_TOLERANCE
            /\ (a.avg_price_tier > response.query.max_price_tier
                /\ a.avg_price_tier <= response.query.max_price_tier + PRICE_TOLERANCE)
                    => HasPriceIssue(a)

\* C18: when a cuisine is given to /opportunities, every returned area lists
\* that cuisine among the (at most three) top_cuisine_gaps it returns.
C18_CuisineAmongReturnedGaps ==
    (IsOpportunities /\ response.query.cuisine # NoValue) =>
        \A i \in DOMAIN response.results :
            /\ Len(response.results[i].top_cuisine_gaps) <= 3
            /\ \E g \in Range(response.results[i].top_cuisine_gaps) :
                    g.cuisine = response.query.cuisine

\* an area is returned whose stored gap list has the requested cuisine
\* beyond its third entry
C18_Witness ==
    /\ IsOpportunities
    /\ response.query.cuisine # NoValue
    /\ \E i \in DOMAIN response.results :
          LET stored == ProfileOf(response.results[i].zip).top_cuisine_gaps
          IN  /\ Len(stored) > 3
              /\ \A k \in 1..3 : stored[k].cuisine # response.query.cuisine

IsPredicted == response.endpoint = "/predict" /\ response.status = 200

\* C19 (as claimed): in an answered /predict, an attribute the caller set
\* (0 included) is the value in concept_applied and in the feature vector;
\* an attribute left unset has the cuisine's default, or the global default
\* when the cuisine has no table entry, in both.
C19_ExplicitOverridesDefault ==
    IsPredicted =>
        LET req     == response.request
            applied == response.concept_applied
            fv      == response.feature_vector
            dflt    == concept_defaults(req.cuisine)
        IN  /\ \A k \in ConceptFlags :
                  LET want == IF req[k] # Unset THEN req[k] ELSE dflt[k]
                  IN  applied[k] = want /\ fv[k] = want
            /\ LET want == IF req.noise_level # NoValue
                           THEN req.noise_level ELSE dflt.noise_level
               IN  applied.noise_level = want /\ fv.noise_level = NOISE_MAP(want)

\* the stored area has no gap entry named as the requested cuisine or as a
\* member of its synonym family
NoFamilyGap(zip_code, cuisine) ==
    \A g \in Range(ProfileOf(zip_code).top_cuisine_gaps) :
        Lower(g.cuisine) \notin cuisine_family(cuisine)

\* the ad-hoc proxy: top neighbor demand minus local family businesses
Proxy(zip_code, cuisine) ==
    LET gaps == ProfileOf(zip_code).top_cuisine_gaps
    IN  (IF gaps # <<>> THEN gaps[1].neighbor_demand ELSE 0)
            - family_count(zip_code, cuisine_family(cuisine))

\* areas of the store that pass the market-size and risk filters of the
\* last /recommendations query
FilteredZips ==
    {z.zip : z \in {x \in Range(GAP_DATA) :
        /\ x.total_reviews >= response.query.min_market_size
        /\ risk_accepted(x, response.query.risk_levels)}}

\* C21 (as claimed): in /recommendations with a cuisine, a returned area
\* without an exact or family gap entry has a positive proxy, match_type
\* relaxed and a penalty issue; an area without such an entry whose proxy is
\* not positive is in no result.
C21_ProxyDecides ==
    (IsRecommendations /\ response.query.cuisine # NoValue) =>
        \A r \in Range(RankedCandidates) :
            NoFamilyGap(r.zip, response.query.cuisine) =>
                /\ Proxy(r.zip, response.query.cuisine) > 0
                /\ r.match_type = "relaxed"
                /\ r.match_issues # <<>>

\* required attributes the stored area has no gap for
MissingAttrs(zip_code) ==
    Range(required_attrs(response.query))
        \ {a.attribute : a \in Range(ProfileOf(zip_code).attr_gaps)}

\* the tier of the missing-attribute rule the area falls in
AttrTier(zip_code) ==
    LET q     == response.query
        nreq  == Len(required_attrs(q))
        nmiss == Cardinality(MissingAttrs(zip_code))
    IN  IF q.cuisine # NoValue /\ family_count(zip_code, cuisine_family(q.cuisine)) < 3
        THEN "low_sample"
        ELSE IF nreq >= 2 /\ 2 * (nreq - nmiss) >= nreq
        THEN "majority"
        ELSE "missing"

\* penalty per missing attribute in each tier
TierPenalty(tier) ==
    CASE tier = "low_sample" -> -2
      [] tier = "majority"   -> -5
      [] OTHER               -> -8

TierIssue(tier) ==
    CASE tier = "low_sample" -> "Unconfirmed gaps due to low local sample size"
      [] tier = "majority"   -> "Most requested service gaps present; missing"
      [] OTHER               -> "Missing validated service gaps"

HasIssue(r, text) == \E k \in DOMAIN r.match_issues : r.match_issues[k][1] = text

\* cumulative penalty of a candidate, the attribute part as the tier says
CumulativePenalty(zip_code) ==
    price_check(ProfileOf(zip_code), response.query).penalty
    + cuisine_match(ProfileOf(zip_code), response.query).penalty
    + TierPenalty(AttrTier(zip_code)) * Cardinality(MissingAttrs(zip_code))

\* the price and cuisine rules left the candidate exact
OthersExact(zip_code) ==
    /\ price_check(ProfileOf(zip_code), response.query).exact
    /\ cuisine_match(ProfileOf(zip_code), response.query).exact

\* the candidate carries the tier's issue and its score is the one the
\* tier's penalty gives
TierApplied(r) ==
    /\ HasIssue(r, TierIssue(AttrTier(r.zip)))
    /\ r.match_score =
          match_score(GAP_DATA, survival_model, ProfileOf(r.zip), response.query,
                      cuisine_match(ProfileOf(r.zip), response.query).top_gap,
                      CumulativePenalty(r.zip))

\* C22: a candidate missing a required attribute gap is penalised 2 per
\* missing attribute and not downgraded when the local sample of the cuisine
\* family is below 3; else 5 per missing attribute and not downgraded when at
\* least two were required and at least half are met; otherwise 8 per missing
\* attribute, and it is relaxed exactly when its cumulative penalty is below
\* -10.
C22_MissingAttributeTiers ==
    IsRecommendations =>
        \A r \in Range(RankedCandidates) :
            MissingAttrs(r.zip) # {} =>
                /\ TierApplied(r)
                /\ (AttrTier(r.zip) # "missing" /\ OthersExact(r.zip))
                        => r.match_type = "exact"
                /\ AttrTier(r.zip) = "missing"
                        => (r.match_type = "relaxed" <=> CumulativePenalty(r.zip) < -10)

\* C22 as stated: in the last tier the candidate is always relaxed
C22_LastTierRelaxed ==
    IsRecommendations =>
        \A r \in Range(RankedCandidates) :
            MissingAttrs(r.zip) # {} =>
                /\ TierApplied(r)
                /\ (AttrTier(r.zip) # "missing" /\ OthersExact(r.zip))
                        => r.match_type = "exact"
                /\ AttrTier(r.zip) = "missing" => r.match_type = "relaxed"

\* one answer's candidates show the low-sample tier and the last tier, the
\* candidate of the last tier relaxed
C22_Witness ==
    /\ IsRecommendations
    /\ \E r \in Range(RankedCandidates) :
            MissingAttrs(r.zip) # {} /\ AttrTier(r.zip) = "missing"
            /\ r.match_type = "relaxed"
    /\ \E r \in Range(RankedCandidates) :
            MissingAttrs(r.zip) # {} /\ AttrTier(r.zip) = "low_sample"

\* a candidate of the majority tier has been scored
MajorityTierScored ==
    /\ IsRecommendations
    /\ \E r \in Range(RankedCandidates) :
            MissingAttrs(r.zip) # {} /\ AttrTier(r.zip) = "majority"

\* some rule marked the candidate non-exact
Downgraded(r) ==
    \/ HasIssue(r, "Average price tier is higher than expected")
    \/ HasIssue(r, "Missing validated service gaps")
    \/ HasIssue(r, "Cuisine gap exists but not among strongest in this area")
    \/ HasIssue(r, "No measurable cuisine gap detected in this area")

\* C23: a candidate whose cumulative penalty p satisfies -10 <= p < 0 has
\* match_type exact whatever rule downgraded it, and a candidate is relaxed
\* only when its cumulative penalty is below -10.
C23_MildPenaltyIsExact ==
    IsRecommendations =>
        \A r \in Range(RankedCandidates) :
            /\ (CumulativePenalty(r.zip) < 0
                /\ CumulativePenalty(r.zip) >= EXACT_PENALTY_THRESHOLD)
                    => r.match_type = "exact"
            /\ r.match_type = "relaxed"
                    => CumulativePenalty(r.zip) < EXACT_PENALTY_THRESHOLD

\* one answer's candidates: a downgraded one reported exact, and a relaxed one
C23_Witness ==
    /\ IsRecommendations
    /\ \E r \in Range(RankedCandidates) :
            /\ Downgraded(r)
            /\ CumulativePenalty(r.zip) >= EXACT_PENALTY_THRESHOLD
            /\ r.match_type = "exact"
    /\ \E r \in Range(RankedCandidates) : r.match_type = "relaxed"

\* open businesses of an area whose categories contain the keyword, case
\* ignored
OpenCuisineCount(zip_code, cuisine) ==
    Cardinality({i \in DOMAIN restaurants :
        /\ restaurants[i].postal_code = zip_code
        /\ restaurants[i].is_open = 1
        /\ ContainsCI(cuisine, restaurants[i].categories)})

\* C24 (as claimed): the local count of every stored cuisine gap is the number
\* of open businesses of the area whose categories contain the cuisine
\* keyword, case ignored, and its neighbor demand is the sum of those numbers
\* over the area's neighbors; closed businesses count nowhere.
C24_OnlyOpenBusinessesCounted ==
    \A p \in Profiles : \A g \in Range(p.top_cuisine_gaps) :
        /\ g.local_count = OpenCuisineCount(p.zip, g.cuisine)
        /\ g.neighbor_demand =
              SumSeq([i \in DOMAIN neighbors[p.zip] |->
                        OpenCuisineCount(neighbors[p.zip][i], g.cuisine)])

\* the claim restricted to what generate_gap_analysis.py writes
C24_GenerateCountsOpenOnly == writer = "generate" => C24_OnlyOpenBusinessesCounted

\* the claim restricted to what recompute_gaps.py writes
C24_RecomputeCountsOpenOnly == writer = "recompute" => C24_OnlyOpenBusinessesCounted

\* businesses of the area
BusinessCount(zip_code) ==
    Cardinality({i \in DOMAIN restaurants : restaurants[i].postal_code = zip_code})

\* the area has a business with known coordinates
HasGeodata(zip_code) ==
    \E i \in DOMAIN restaurants :
        /\ restaurants[i].postal_code = zip_code
        /\ restaurants[i].latitude # 0
        /\ restaurants[i].longitude # 0

\* C25 (as claimed): a batch run writes an AreaProfile only for areas with at
\* least MIN_ZIP_RESTAURANTS businesses and a business with known
\* coordinates, and no other area is in any neighbor set.
C25_OnlyDenseLocatedAreas ==
    /\ \A p \in Profiles :
          BusinessCount(p.zip) >= MIN_ZIP_RESTAURANTS /\ HasGeodata(p.zip)
    /\ \A z \in DOMAIN neighbors : \A i \in DOMAIN neighbors[z] :
          /\ BusinessCount(neighbors[z][i]) >= MIN_ZIP_RESTAURANTS
          /\ HasGeodata(neighbors[z][i])

\* the claim restricted to what generate_gap_analysis.py writes
C25_GenerateOnlyDenseLocatedAreas == writer = "generate" => C25_OnlyDenseLocatedAreas

\* C26: an area with zero neighbors gets an AreaProfile, and its cuisine gap
\* list and attribute gap list are empty.
C26_NoNeighborsNoGaps ==
    /\ \A z \in DOMAIN neighbors :
          neighbors[z] = <<>> => \E p \in Profiles : p.zip = z
    /\ \A p \in Profiles :
          neighbors[p.zip] = <<>> =>
              /\ p.num_neighbors = 0
              /\ p.top_cuisine_gaps = <<>>
              /\ p.attr_gaps = <<>>

\* generate_gap_analysis.py wrote a profile for an area without neighbors
\* next to a profile with neighbors and gaps
C26_Witness ==
    /\ writer = "generate"
    /\ \E p \in Profiles : neighbors[p.zip] = <<>> /\ p.total_restaurants >= 3
    /\ \E p \in Profiles : neighbors[p.zip] # <<>> /\ p.top_cuisine_gaps # <<>>

\* the city candidates built for the query that was answered
CityCandidates == city_candidates(RankedCandidates)

\* positions <<city, sub-area>> at which an area stands in the candidates
PlacesOf(zip_code) ==
    {p \in (DOMAIN CityCandidates) \X (1..Len(GAP_DATA)) :
        /\ p[2] \in DOMAIN CityCandidates[p[1]].zips
        /\ CityCandidates[p[1]].zips[p[2]].zip = zip_code}

\* C27: city grouping yields at most one candidate per city name; every
\* filtered area stands in exactly one candidate's sub-area list, that of its
\* city; a candidate's match_score and representative area are those of its
\* best-scoring area; its attribute opportunities are the union of its areas'
\* attribute opportunities.
C27_CityGrouping ==
    IsRecommendations =>
        /\ \A i, j \in DOMAIN CityCandidates :
              i # j => CityCandidates[i].city # CityCandidates[j].city
        /\ \A z \in FilteredZips :
              /\ Cardinality(PlacesOf(z)) = 1
              /\ \A p \in PlacesOf(z) : CityCandidates[p[1]].city = ProfileOf(z).city
        /\ \A i \in DOMAIN CityCandidates :
              LET c == CityCandidates[i]
              IN  /\ \A k \in DOMAIN c.zips : c.zips[k].zip \in FilteredZips
                  /\ \A k \in DOMAIN c.zips : c.match_score >= c.zips[k].match_score
                  /\ \E k \in DOMAIN c.zips :
                        c.zips[k].zip = c.zip /\ c.zips[k].match_score = c.match_score
                  /\ c.evidence.attribute_opportunities =
                        UNION { {a.attribute : a \in Range(ProfileOf(c.zips[k].zip).attr_gaps)} :
                                k \in DOMAIN c.zips }

\* a city with two areas of different scores, the second bringing an
\* attribute the first lacks or the first having more, was grouped next to
\* another city
C27_Witness ==
    /\ IsRecommendations
    /\ Len(CityCandidates) >= 2
    /\ \E i \in DOMAIN CityCandidates :
          LET c == CityCandidates[i]
          IN  /\ Len(c.zips) = 2
              /\ c.zips[1].match_score > c.zips[2].match_score
              /\ {a.attribute : a \in Range(ProfileOf(c.zips[1].zip).attr_gaps)}
                    # c.evidence.attribute_opportunities

\* remaining candidates whose county is below its cap
Eligible == {c \in Range(loop.remaining) : ~cap_reached(loop.selected, c)}

\* the MMR value of a remaining candidate against what is selected so far
MMR(c) == mmr(loop.selected, c, loop.min_score, loop.max_score)

\* C28: the candidate an iteration of the selection loop appends is, when
\* some remaining candidate's county is below its cap, such a candidate with
\* the largest MMR value, and among those with that value one of the highest
\* match_score; when no remaining candidate is eligible it is one of the
\* highest-scoring remaining candidates.
C28_IterationPicksBestMMR ==
    [][ (loop.active /\ Len(loop'.selected) = Len(loop.selected) + 1) =>
            LET chosen == loop'.selected[Len(loop'.selected)]
            IN  /\ chosen \in Range(loop.remaining)
                /\ Len(loop'.remaining) = Len(loop.remaining) - 1
                /\ chosen \notin Range(loop'.remaining)
                /\ IF Eligible # {}
                   THEN /\ chosen \in Eligible
                        /\ \A c \in Eligible :
                              /\ MMR(c) <= MMR(chosen)
                              /\ MMR(c) = MMR(chosen)
                                    => c.match_score <= chosen.match_score
                   ELSE \A c \in Range(loop.remaining) :
                              c.match_score <= chosen.match_score ]_vars

\* an iteration has passed over a higher-scoring candidate that is still
\* remaining
C28_Witness ==
    /\ loop.active
    /\ loop.selected # <<>>
    /\ \E c \in Range(loop.remaining) :
          c.match_score > loop.selected[Len(loop.selected)].match_score

\* the store as gap_analysis.json gave it at startup
LoadedStore == LoadGapData(MapField(GAP_DATA, "zip"))

DistinctCities == Cardinality({ProfileOf(zip_code).city : zip_code \in FilteredZips})

\* C30: the answer of /recommendations carries min(max(limit, 0), number of
\* distinct cities among the filtered areas) city recommendations, and the
\* selection loop is left only when no candidate remains or limit cities
\* are selected, whatever the county counts are.
C30_LoopRunsToLimit ==
    /\ []((IsRecommendations /\ ~loop.active) =>
            /\ Len(response.recommendations)
                  = Min2(Max2(response.query.limit, 0), DistinctCities)
            /\ response.count = Len(response.recommendations))
    /\ [][ (loop.active /\ ~loop'.active) =>
              (loop.remaining = <<>> \/ Len(loop.selected) >= loop.query.limit) ]_vars

\* C30 as stated: the answer carries min(limit, number of distinct cities
\* among the filtered areas) recommendations.
C30_ReturnsMinLimitCities ==
    (IsRecommendations /\ ~loop.active) =>
        Len(response.recommendations) = Min2(response.query.limit, DistinctCities)

\* a call has returned every city of a store with several cities although
\* the returned cities of some county outnumber that county's cap
C30_Witness ==
    /\ IsRecommendations
    /\ ~loop.active
    /\ DistinctCities >= 2
    /\ Len(response.recommendations) = DistinctCities
    /\ \E r \in Range(response.recommendations) :
          county_count(response.recommendations, ZIP_COUNTY(r.zip))
              > COUNTY_CAPS(ZIP_COUNTY(r.zip))

====
